---- MODULE Spec2Model ----
(***************************************************************************)
(* Model of the cultivation game's progression core: the spirit stone      *)
(* ledger (src/spirit_stones.py), the realm/stage engine                   *)
(* (src/realm_stage_system.py) and the player aggregate (src/player.py),   *)
(* with the encounter managers that mutate it.                             *)
(*                                                                         *)
(* The state machines share the variables:                                 *)
(*   LedgerSpec / LedgerAnySpec  - SpiritStoneManager alone                *)
(*   Spec / LongSpec             - EnhancedPlayer and its collaborators    *)
(*   PureSpec                    - pure functions on drawn inputs          *)
(*   RecoverySpec                - curing and meditation                   *)
(*   EncounterSpec               - SmartEncounterManager alone             *)
(*   RecoveringSpec / RecoveringFairSpec - recovery after a failed         *)
(*                                 breakthrough                            *)
(***************************************************************************)
EXTENDS Integers, Sequences, FiniteSets, TLC

VARIABLES
    inventory,                \* SpiritStoneManager.inventory: grade -> count
    realm,                    \* EnhancedPlayer.realm (the realm's name)
    stage,                    \* EnhancedPlayer.stage, 1..9
    experience,               \* EnhancedPlayer.experience
    foundation_quality,       \* EnhancedPlayer.foundation_quality
    recovery_time,            \* EnhancedPlayer.recovery_time
    breakthrough_failures,    \* EnhancedPlayer.breakthrough_failures
    total_breakthroughs,      \* EnhancedPlayer.total_breakthroughs
    ongoing_effects,          \* EnhancedPlayer.ongoing_effects: list of effect dicts
    effects_cured,            \* EnhancedPlayer.effects_cured
    sessions_since_encounter, \* SmartEncounterManager.sessions_since_encounter
    recent_encounter_types,   \* SmartEncounterManager.recent_encounter_types
    template_duration,        \* remaining_duration of each negative_effect dict of
                              \* the choice-encounter catalog (the player's list holds
                              \* these dicts themselves, not copies)
    steps,                    \* operations performed so far
    last                      \* the call being observed: operation, inputs, pre-state
                              \* and result; [op |-> "none"] between calls

\* the player aggregate and its collaborators, apart from the ledger
playerVars ==
    <<realm, stage, experience, foundation_quality, recovery_time,
      breakthrough_failures, total_breakthroughs, ongoing_effects, effects_cured,
      sessions_since_encounter, recent_encounter_types, template_duration, steps>>

vars == <<inventory, playerVars, last>>

----------------------------------------------------------------------------
(* Bounds of the model *)

\* largest count of one denomination the ledger is explored with
MaxCount == 2
\* largest amount of one denomination in a cost map
MaxCostAmt == 5
\* largest amount passed to add_stones / remove_stones
MaxAmount == 2
\* number of operations on the player in one exploration of Spec
MaxSteps == 1

----------------------------------------------------------------------------
(* SpiritStoneGrade and SpiritStoneManager *)

\* SpiritStoneGrade in declaration order: LOW, MID, HIGH, PEAK, DIVINE
LOW == 1
MID == 2
HIGH == 3
PEAK == 4
DIVINE == 5
SpiritStoneGrade == LOW..DIVINE

EXCHANGE_RATES == <<1, 10, 100, 1000, 10000>>

Max(a, b) == IF a >= b THEN a ELSE b
Min(a, b) == IF a <= b THEN a ELSE b

RECURSIVE SumOver(_, _)
\* sum of f[g] * EXCHANGE_RATES[g] for g in 1..n (the accumulation loops over a dict)
SumOver(f, n) == IF n = 0 THEN 0 ELSE SumOver(f, n - 1) + f[n] * EXCHANGE_RATES[n]

\* get_total_value_in_low_grade, of an inventory
get_total_value_in_low_grade(inv) == SumOver(inv, DIVINE)

\* total_cost as accumulated in _can_afford_with_conversion / _pay_with_conversion
\* (a cost map is a function on all grades; a grade the dict does not name is 0)
total_cost(cost) == SumOver(cost, DIVINE)

can_afford_with_conversion(inv, cost) ==
    get_total_value_in_low_grade(inv) >= total_cost(cost)

can_afford_cost(inv, cost) ==
    IF \E g \in SpiritStoneGrade : inv[g] < cost[g]
    THEN can_afford_with_conversion(inv, cost)
    ELSE TRUE

\* (remaining_cost + stone_value - 1) // stone_value, for remaining_cost > 0
StonesNeededFloor(remaining_cost, stone_value) == remaining_cost \div stone_value
StonesNeeded(remaining_cost, stone_value) ==
    (remaining_cost + stone_value - 1) \div stone_value

RECURSIVE ConvertFromTakingAll(_, _, _)
\* the loop of _pay_with_conversion spending every stone of a grade it reaches
ConvertFromTakingAll(inv, g, remaining_cost) ==
    IF g = 0 \/ remaining_cost <= 0
    THEN [inventory |-> inv, remaining_cost |-> remaining_cost]
    ELSE ConvertFromTakingAll([inv EXCEPT ![g] = 0], g - 1,
                              remaining_cost - inv[g] * EXCHANGE_RATES[g])

RECURSIVE ConvertFrom(_, _, _)
\* the loop of _pay_with_conversion from grade g down to LOW
ConvertFrom(inv, g, remaining_cost) ==
    IF g = 0 \/ remaining_cost <= 0
    THEN [inventory |-> inv, remaining_cost |-> remaining_cost]
    ELSE IF inv[g] > 0
         THEN LET stones_to_use ==
                      Min(inv[g], StonesNeeded(remaining_cost, EXCHANGE_RATES[g]))
              IN  ConvertFrom([inv EXCEPT ![g] = @ - stones_to_use], g - 1,
                              remaining_cost - stones_to_use * EXCHANGE_RATES[g])
         ELSE ConvertFrom(inv, g - 1, remaining_cost)

pay_with_conversion(inv, cost) ==
    LET r == ConvertFrom(inv, DIVINE, total_cost(cost))
    IN  [ok |-> r.remaining_cost <= 0, inventory |-> r.inventory, exact |-> FALSE]

\* pay_cost without the affordability check at its head
pay_cost_unchecked(inv, cost) ==
    IF \A g \in SpiritStoneGrade : inv[g] >= cost[g]
    THEN [ok |-> TRUE, inventory |-> [g \in SpiritStoneGrade |-> inv[g] - cost[g]],
          exact |-> TRUE]
    ELSE pay_with_conversion(inv, cost)

\* pay_cost: result, the inventory it leaves, and whether the exact path paid
pay_cost(inv, cost) ==
    IF ~can_afford_cost(inv, cost)
    THEN [ok |-> FALSE, inventory |-> inv, exact |-> FALSE]
    ELSE IF \A g \in SpiritStoneGrade : inv[g] >= cost[g]
         THEN [ok |-> TRUE,
               inventory |-> [g \in SpiritStoneGrade |-> inv[g] - cost[g]],
               exact |-> TRUE]
         ELSE pay_with_conversion(inv, cost)

\* add_stones: the inventory it leaves
add_stones(inv, grade, amount) == [inv EXCEPT ![grade] = @ + amount]

\* remove_stones without its availability guard
remove_stones_unguarded(inv, grade, amount) ==
    [ok |-> TRUE, inventory |-> [inv EXCEPT ![grade] = @ - amount]]

\* remove_stones: result and the inventory it leaves
remove_stones(inv, grade, amount) ==
    IF inv[grade] >= amount
    THEN [ok |-> TRUE, inventory |-> [inv EXCEPT ![grade] = @ - amount]]
    ELSE [ok |-> FALSE, inventory |-> inv]

\* the cost map that names no denomination
NoCost == [g \in SpiritStoneGrade |-> 0]

----------------------------------------------------------------------------
(* RealmStageManager (src/realm_stage_system.py) *)

\* CultivationRealm, by value, in declaration order
CultivationRealm ==
    <<"Body Tempering", "Qi Gathering", "Foundation Building", "Core Formation",
      "Nascent Soul", "Soul Transformation", "Void Refinement", "Body Integration",
      "Mahayana", "Heavenly Immortal">>

Realms == {CultivationRealm[i] : i \in DOMAIN CultivationRealm}

\* list(CultivationRealm).index(realm), 0-based as in the code
RealmIndex(r) == (CHOOSE i \in DOMAIN CultivationRealm : CultivationRealm[i] = r) - 1

\* RealmInfo.foundation_requirement of each realm
foundation_requirement ==
    [r \in Realms |->
        <<20, 40, 80, 150, 250, 400, 600, 900, 1400, 2000>>[RealmIndex(r) + 1]]

\* stage_exp_base of each realm
stage_exp_base ==
    [r \in Realms |->
        <<50, 80, 120, 200, 350, 600, 1000, 1800, 3000, 5000>>[RealmIndex(r) + 1]]

\* stage_exp_multiplier of each realm, in hundredths
stage_exp_multiplier ==
    [r \in Realms |->
        <<120, 125, 130, 140, 150, 160, 170, 180, 200, 220>>[RealmIndex(r) + 1]]

\* int(base_exp * (multiplier ** (stage - 1))) for stages 1..9 of each realm, as
\* the double-precision product truncates (Core Formation stage 3 is 391, where
\* the exact product is 392)
StageExpTable ==
    <<<<50, 60, 72, 86, 103, 124, 149, 179, 214>>,
      <<80, 100, 125, 156, 195, 244, 305, 381, 476>>,
      <<120, 156, 202, 263, 342, 445, 579, 752, 978>>,
      <<200, 280, 391, 548, 768, 1075, 1505, 2108, 2951>>,
      <<350, 525, 787, 1181, 1771, 2657, 3986, 5980, 8970>>,
      <<600, 960, 1536, 2457, 3932, 6291, 10066, 16106, 25769>>,
      <<1000, 1700, 2889, 4912, 8352, 14198, 24137, 41033, 69757>>,
      <<1800, 3240, 5832, 10497, 18895, 34012, 61222, 110199, 198359>>,
      <<3000, 6000, 12000, 24000, 48000, 96000, 192000, 384000, 768000>>,
      <<5000, 11000, 24200, 53240, 117128, 257681, 566899, 1247178, 2743793>>>>

get_stage_exp_requirement(r, s) ==
    IF s < 1 \/ s > 9 THEN 0 ELSE StageExpTable[RealmIndex(r) + 1][s]

\* get_next_realm stepping two realms ahead
get_next_realm_skipping(r) ==
    IF RealmIndex(r) + 2 < Len(CultivationRealm)
    THEN CultivationRealm[RealmIndex(r) + 3]
    ELSE ""

\* None (no next realm) is the empty string
get_next_realm(r) ==
    IF RealmIndex(r) + 1 < Len(CultivationRealm)
    THEN CultivationRealm[RealmIndex(r) + 2]
    ELSE ""


\* can_breakthrough_realm without the stage and foundation conditions
can_breakthrough_always(r, s, fq) == [ok |-> TRUE, reason |-> "ready"]

\* can_breakthrough_realm: (can_attempt, reason)
can_breakthrough_realm(r, s, fq) ==
    IF s # 9 THEN [ok |-> FALSE, reason |-> "stage"]
    ELSE IF fq < foundation_requirement[r] THEN [ok |-> FALSE, reason |-> "foundation"]
    ELSE [ok |-> TRUE, reason |-> "ready"]

\* get_foundation_stage_bonus: stage * 2.0 at stages 3, 6 and 9
get_foundation_stage_bonus(s) == IF s \in {3, 6, 9} THEN s * 2 ELSE 0

\* RealmStageManager.attempt_breakthrough for one draw of its random numbers:
\* roll is random.random() < success_rate; bonus, damage, percent and recovery are
\* the randint draws. The result is (success, result_data); a key result_data
\* lacks carries the default the player reads it with (.get(key, 0)).
attempt_breakthrough(r, roll, bonus, damage, percent, recovery) ==
    IF roll
    THEN IF get_next_realm(r) # ""
         THEN [success |-> TRUE, new_realm |-> get_next_realm(r),
               foundation_bonus |-> bonus, foundation_damage |-> 0,
               exp_loss_percent |-> 0, recovery_time |-> 0]
         ELSE [success |-> FALSE, new_realm |-> "", foundation_bonus |-> 0,
               foundation_damage |-> 0, exp_loss_percent |-> 0, recovery_time |-> 0]
    ELSE [success |-> FALSE, new_realm |-> "", foundation_bonus |-> 0,
          foundation_damage |-> damage, exp_loss_percent |-> percent,
          recovery_time |-> recovery]

\* breakthrough_difficulty of each realm, in tenths
breakthrough_difficulty ==
    [r \in Realms |-> <<8, 10, 12, 15, 20, 25, 30, 40, 50, 70>>[RealmIndex(r) + 1]]

\* A success rate x of realm r is held as the integer
\* x * 1000 * foundation_requirement[r]: every term of the rate is a whole number
\* of these units, so the arithmetic below is exact. Thousandths(r, t) is the
\* rate t / 1000 in the units of realm r.
Thousandths(r, t) == t * foundation_requirement[r]

RECURSIVE AddBonusFactors(_, _, _, _)
\* the loop "final_rate += factor_value" over bonus_factors, a sequence of
\* factor values in thousandths, from entry i on
AddBonusFactors(r, bonus_factors, i, final_rate) ==
    IF i > Len(bonus_factors) THEN final_rate
    ELSE AddBonusFactors(r, bonus_factors, i + 1,
                         final_rate + Thousandths(r, bonus_factors[i]))

\* the rate without the clamp of the return statement
calculate_breakthrough_success_rate_unclamped(r, fq, bonus_factors) ==
    LET base_rate == Min(Thousandths(r, 950),
                         Thousandths(r, 300) + 400 * (fq - foundation_requirement[r]))
        difficulty_penalty == Thousandths(r, (breakthrough_difficulty[r] - 10) * 10)
        final_rate == Max(Thousandths(r, 50), base_rate - difficulty_penalty)
    IN  AddBonusFactors(r, bonus_factors, 1, final_rate)

\* calculate_breakthrough_success_rate: base_rate is capped at 0.95, the rate
\* after the difficulty penalty is floored at 0.05, the bonus factors are added
\* and the sum is clamped to [0.05, 0.95]
calculate_breakthrough_success_rate(r, fq, bonus_factors) ==
    LET base_rate == Min(Thousandths(r, 950),
                         Thousandths(r, 300) + 400 * (fq - foundation_requirement[r]))
        difficulty_penalty == Thousandths(r, (breakthrough_difficulty[r] - 10) * 10)
        final_rate == Max(Thousandths(r, 50), base_rate - difficulty_penalty)
    IN  Min(Thousandths(r, 950),
            Max(Thousandths(r, 50), AddBonusFactors(r, bonus_factors, 1, final_rate)))

----------------------------------------------------------------------------
(* Ongoing effects *)

\* remaining_duration of a permanent effect (None in the code)
None == -1

\* An effect dict is a record [name, type, exp_multiplier, remaining_duration],
\* exp_multiplier in hundredths. An entry of ongoing_effects is either such a
\* record (a dict of its own) or [template |-> k]: the k-th negative_effect dict
\* of the choice-encounter catalog itself, whose remaining_duration lives in
\* template_duration[k].
Effect(name, type, mult, dur) ==
    [name |-> name, type |-> type, exp_multiplier |-> mult, remaining_duration |-> dur]

\* the negative_effect dicts of ChoiceEncounterManager._load_choice_encounters
ChoiceEffects ==
    <<Effect("Pill Poisoning", "negative", 80, 5),
      Effect("Elemental Chaos", "negative", 70, 8),
      Effect("Dao Backlash", "negative", 85, 6),
      Effect("Mental Exhaustion", "negative", 90, 4),
      Effect("Mining Injuries", "negative", 80, 6),
      Effect("Cultivation Setback", "negative", 70, 10),
      Effect("Senior's Displeasure", "negative", 85, 7),
      Effect("Lightning Scars", "negative", 60, 12),
      Effect("Minor Lightning Burns", "negative", 90, 4)>>

Templates == DOMAIN ChoiceEffects

IsShared(e) == "template" \in DOMAIN e
Shared(k) == [template |-> k]

EffName(e) == IF IsShared(e) THEN ChoiceEffects[e.template].name ELSE e.name
EffType(e) == IF IsShared(e) THEN ChoiceEffects[e.template].type ELSE e.type
EffMultiplier(e) ==
    IF IsShared(e) THEN ChoiceEffects[e.template].exp_multiplier ELSE e.exp_multiplier
\* effect.get('remaining_duration'), given the catalog dicts' current durations
EffRemaining(e, td) == IF IsShared(e) THEN td[e.template] ELSE e.remaining_duration

\* indices of the negative effects of a list, and the list of them
NegativeIndices(effs) == {i \in DOMAIN effs : EffType(effs[i]) = "negative"}
get_negative_effects(effs) == SelectSeq(effs, LAMBDA e : EffType(e) = "negative")

\* list.pop(i)
Pop(effs, i) == SubSeq(effs, 1, i - 1) \o SubSeq(effs, i + 1, Len(effs))

\* list.remove(e): drops the first entry equal to e
ListRemove(effs, e) ==
    Pop(effs, CHOOSE i \in DOMAIN effs :
                  effs[i] = e /\ \A j \in 1..(i - 1) : effs[j] # e)

RECURSIVE RemoveRandomNegatives(_, _)
\* the lists that k rounds of "random.choice(negative_effects), then remove it
\* from both lists" can leave
RemoveRandomNegatives(effs, k) ==
    IF k = 0 \/ NegativeIndices(effs) = {}
    THEN {effs}
    ELSE UNION {RemoveRandomNegatives(ListRemove(effs, effs[i]), k - 1) :
                    i \in NegativeIndices(effs)}

\* int(n / d) for integers: truncation toward zero
Trunc(n, d) == IF n >= 0 THEN n \div d ELSE -((-n) \div d)

\* the (x, hundredths) pairs below 330 whose double-precision product x * m falls
\* just short of the exact integer product
FloatShort ==
    {<<90, 70>>, <<170, 70>>, <<180, 70>>,
     <<100, 115>>, <<180, 115>>, <<200, 115>>, <<220, 115>>}

\* int(x * exp_multiplier), x >= 0
IntTimes(x, mult) ==
    IF <<x, mult>> \in FloatShort THEN (x * mult) \div 100 - 1 ELSE (x * mult) \div 100

RECURSIVE ApplyFrom(_, _, _)
ApplyFrom(effs, i, modified_exp) ==
    IF i > Len(effs) THEN modified_exp
    ELSE ApplyFrom(effs, i + 1, IntTimes(modified_exp, EffMultiplier(effs[i])))

\* _apply_ongoing_effects (every effect dict of the catalogs carries exp_multiplier)
apply_ongoing_effects(effs, base_exp) == ApplyFrom(effs, 1, base_exp)

RECURSIVE CleanupFrom(_, _, _, _)
\* the loop of _cleanup_expired_effects from entry i on: active_effects so far and
\* the catalog dicts' durations
CleanupFrom(effs, i, active, td) ==
    IF i > Len(effs) THEN [effects |-> active, template_duration |-> td]
    ELSE LET e == effs[i]
             remaining == EffRemaining(e, td)
         IN  IF remaining = None
             THEN CleanupFrom(effs, i + 1, Append(active, e), td)
             ELSE IF remaining > 0
                  THEN IF IsShared(e)
                       THEN CleanupFrom(effs, i + 1, Append(active, e),
                                        [td EXCEPT ![e.template] = remaining - 1])
                       ELSE CleanupFrom(effs, i + 1,
                                Append(active, [e EXCEPT !.remaining_duration = remaining - 1]),
                                td)
                  ELSE CleanupFrom(effs, i + 1, active, td)

cleanup_expired_effects(effs, td) == CleanupFrom(effs, 1, <<>>, td)

RECURSIVE RecoverFrom(_, _, _, _)
\* the loop of _process_natural_recovery over the snapshot `negatives`, the
\* entries whose roll succeeded being those at the positions in `recovered`
RecoverFrom(effs, negatives, i, recovered) ==
    IF i > Len(negatives) THEN effs
    ELSE IF i \in recovered
         THEN RecoverFrom(ListRemove(effs, negatives[i]), negatives, i + 1, recovered)
         ELSE RecoverFrom(effs, negatives, i + 1, recovered)

process_natural_recovery(effs, recovered) ==
    RecoverFrom(effs, get_negative_effects(effs), 1, recovered)

\* recovery_chance of _process_natural_recovery, in thousandths
recovery_chance(r, fq) == 100 + fq + RealmIndex(r) * 20

----------------------------------------------------------------------------
(* SmartEncounterManager and encounter rewards (src/cultivation_encounters.py) *)

EncounterType == {"bottleneck", "insight", "anomaly", "technique"}

NoEffect == <<>>

Encounter(type, name, rarity, exp, fnd, eff) ==
    [type |-> type, name |-> name, rarity |-> rarity, experience |-> exp,
     foundation |-> fnd, ongoing_effect |-> eff]

\* the encounter definitions of _initialize_encounters: rewards.experience and
\* rewards.foundation (0 where the key is absent) and the ongoing_effect dict
Encounters ==
    <<Encounter("bottleneck", "Qi Stagnation", "common", 0, 0,
                <<Effect("Qi Stagnation", "negative", 85, None)>>),
      Encounter("bottleneck", "Meridian Blockage", "common", 0, 0,
                <<Effect("Meridian Blockage", "negative", 80, None)>>),
      Encounter("bottleneck", "Foundation Cracks", "uncommon", 0, 0,
                <<Effect("Foundation Cracks", "negative", 75, None)>>),
      Encounter("bottleneck", "Cultivation Deviation", "rare", 0, 0,
                <<Effect("Cultivation Deviation", "negative", 60, None)>>),
      Encounter("bottleneck", "Heart Demon", "very_rare", 0, 0,
                <<Effect("Heart Demon", "negative", 50, None)>>),
      Encounter("insight", "Dao Comprehension", "common", 25, 0, NoEffect),
      Encounter("insight", "Elemental Resonance", "common", 20, 0, NoEffect),
      Encounter("insight", "Foundation Enlightenment", "uncommon", 30, 5, NoEffect),
      Encounter("insight", "Heavenly Insight", "rare", 50, 0,
                <<Effect("Enlightenment", "positive", 125, 10)>>),
      Encounter("insight", "Cosmic Revelation", "very_rare", 100, 0,
                <<Effect("Cosmic Understanding", "positive", 150, 15)>>),
      Encounter("anomaly", "Qi Turbulence", "common", 0, 0,
                <<Effect("Chaotic Qi", "negative", 90, 5)>>),
      Encounter("anomaly", "Elemental Storm", "uncommon", 0, 0,
                <<Effect("Elemental Imbalance", "negative", 85, 8)>>),
      Encounter("anomaly", "Spatial Rift", "rare", -20, 0,
                <<Effect("Spiritual Corruption", "negative", 70, None)>>),
      Encounter("anomaly", "Dao Fluctuation", "very_rare", 0, 0,
                <<Effect("Dao Confusion", "negative", 60, None)>>),
      Encounter("anomaly", "Void Incursion", "legendary", 0, 0,
                <<Effect("Void Taint", "negative", 40, None)>>),
      Encounter("technique", "Ancient Manual", "common", 35, 0, NoEffect),
      Encounter("technique", "Technique Inspiration", "common", 30, 0, NoEffect),
      Encounter("technique", "Master's Echo", "uncommon", 45, 0,
                <<Effect("Master's Guidance", "positive", 120, 8)>>),
      Encounter("technique", "Technique Breakthrough", "rare", 60, 0, NoEffect),
      Encounter("technique", "Forbidden Technique", "rare", 80, 0,
                <<Effect("Technique Backlash", "negative", 95, 12)>>),
      Encounter("technique", "Legendary Inheritance", "legendary", 150, 0,
                <<Effect("Legendary Mastery", "positive", 115, None)>>)>>

\* realm_rarities of _select_encounter, with its default
allowed_rarities(r) ==
    CASE r = "Qi Gathering" -> {"common", "uncommon"}
      [] r = "Foundation Building" -> {"common", "uncommon", "rare"}
      [] r = "Core Formation" -> {"common", "uncommon", "rare", "very_rare"}
      [] r = "Nascent Soul" -> {"uncommon", "rare", "very_rare", "legendary"}
      [] r = "Soul Transformation" -> {"rare", "very_rare", "legendary"}
      [] OTHER -> {"common", "uncommon"}

\* _select_encounter_type without the variety rule
select_encounter_type_any(recent) == EncounterType

\* the types _select_encounter_type can return (every weight is positive)
select_encounter_type(recent) ==
    LET recent_set == IF Len(recent) >= 2
                      THEN {recent[Len(recent) - 1], recent[Len(recent)]}
                      ELSE {}
    IN  IF EncounterType \ recent_set # {} THEN EncounterType \ recent_set
        ELSE EncounterType

\* the definitions _select_encounter can return (every weight is positive)
select_encounter(type, r) ==
    LET ofType == {i \in DOMAIN Encounters : Encounters[i].type = type}
        filtered == {i \in ofType : Encounters[i].rarity \in allowed_rarities(r)}
    IN  IF filtered # {} THEN filtered ELSE ofType

\* _calculate_encounter_chance is min(0.06 + drought bonus, 0.4): strictly between
\* 0 and 1, so the roll of process_encounter can go either way

\* _calculate_encounter_chance with the drought bonus growing from the first
\* quiet session on
calculate_encounter_chance_no_threshold(since) ==
    Min(6 + Min(30, since * 2), 40)

\* _calculate_encounter_chance, in hundredths: base_chance 0.06, 0.02 per
\* session from the 15th quiet one up to 0.3, capped at 0.4
calculate_encounter_chance(since) ==
    LET drought_bonus == IF since >= 15 THEN Min(30, (since - 15) * 2) ELSE 0
    IN  Min(6 + drought_bonus, 40)

\* process_encounter: the manager's state after a session with no encounter
\* (enc = 0) or with encounter definition enc
process_encounter(since, recent, enc) ==
    IF enc = 0
    THEN [sessions_since_encounter |-> since + 1, recent_encounter_types |-> recent]
    ELSE LET appended == Append(recent, Encounters[enc].type)
         IN  [sessions_since_encounter |-> 0,
              recent_encounter_types |->
                  IF Len(appended) > 5 THEN Tail(appended) ELSE appended]

\* realm_multipliers of generate_encounter_reward, in tenths, with its default
reward_multiplier(r) ==
    CASE r = "Qi Gathering" -> 10
      [] r = "Foundation Building" -> 12
      [] r = "Core Formation" -> 15
      [] r = "Nascent Soul" -> 20
      [] r = "Soul Transformation" -> 25
      [] OTHER -> 10

\* base_bonus of _generate_bonus_rewards
base_bonus(type) ==
    CASE type = "bottleneck" -> 5
      [] type = "insight" -> 15
      [] type = "anomaly" -> 8
      [] type = "technique" -> 12

\* largest foundation bonus of _generate_bonus_rewards: max(1, int(3 * multiplier))
max_foundation_bonus(r) == Max(1, Trunc(3 * reward_multiplier(r), 10))

\* the copy of an ongoing_effect with its duration rescaled for the realm:
\* max(1, int(duration * max(0.5, 1.5 - (multiplier - 1.0) * 0.3)))
scaled_effect(eff, r) ==
    IF eff.remaining_duration = None THEN eff
    ELSE LET duration_multiplier == Max(50, 150 - (reward_multiplier(r) - 10) * 3)
         IN  [eff EXCEPT !.remaining_duration =
                  Max(1, Trunc(eff.remaining_duration * duration_multiplier, 100))]

\* generate_encounter_reward for one draw of the bonus rolls: bonus_exp says
\* whether the experience bonus is rolled, bonus_fnd is the foundation bonus (0 when
\* not rolled; bottlenecks never roll it)
generate_encounter_reward(enc, r, bonus_exp, bonus_fnd) ==
    LET e == Encounters[enc]
        m == reward_multiplier(r)
    IN  [experience |-> Trunc(e.experience * m, 10)
                        + (IF bonus_exp THEN Trunc(base_bonus(e.type) * m, 10) ELSE 0),
         foundation |-> Trunc(e.foundation * m, 10)
                        + (IF e.type = "bottleneck" THEN 0 ELSE bonus_fnd),
         ongoing_effect |-> IF e.ongoing_effect = NoEffect THEN NoEffect
                            ELSE <<scaled_effect(e.ongoing_effect[1], r)>>]

\* a reward definition: each key of the "rewards" dict is <<>> when absent and
\* <<value>> when present; philosophy and elemental values are dicts
Rewards(exp, fnd, philosophy, elemental) ==
    [experience |-> exp, foundation |-> fnd, philosophy |-> philosophy,
     elemental |-> elemental]

Absent == <<>>

\* dict.get(k, 0)
DictGet(d, k) == IF k \in DOMAIN d THEN d[k] ELSE 0

\* the scaling loop of generate_encounter_reward, multiplier m in tenths
scale_rewards(d, m) ==
    LET philosophy_multiplier == Min(m, 15)
        elemental_multiplier == Min(m, 20)
    IN  [experience |-> IF d.experience = Absent THEN Absent
                        ELSE <<Trunc(d.experience[1] * m, 10)>>,
         foundation |-> IF d.foundation = Absent THEN Absent
                        ELSE <<Trunc(d.foundation[1] * m, 10)>>,
         philosophy |-> IF d.philosophy = Absent THEN Absent
                        ELSE <<[k \in DOMAIN d.philosophy[1] |->
                                   Trunc(d.philosophy[1][k] * philosophy_multiplier, 10)]>>,
         elemental |-> IF d.elemental = Absent THEN Absent
                       ELSE <<[k \in DOMAIN d.elemental[1] |->
                                  Trunc(d.elemental[1][k] * elemental_multiplier, 10)]>>]

\* the bonus loop of generate_encounter_reward with a bonus taking the place of
\* a reward of the same key
merge_bonus_rewards_replacing(rewards, bonus) ==
    [k \in DOMAIN rewards |-> IF bonus[k] = Absent THEN rewards[k] ELSE bonus[k]]

\* the bonus loop of generate_encounter_reward: integers are added, dicts are
\* merged key by key, a key the rewards lack is set
merge_bonus_rewards(rewards, bonus) ==
    LET int(k) == IF bonus[k] = Absent THEN rewards[k]
                  ELSE IF rewards[k] = Absent THEN bonus[k]
                  ELSE <<rewards[k][1] + bonus[k][1]>>
        dict(k) == IF bonus[k] = Absent THEN rewards[k]
                   ELSE IF rewards[k] = Absent THEN bonus[k]
                   ELSE <<[key \in DOMAIN rewards[k][1] \cup DOMAIN bonus[k][1] |->
                              DictGet(rewards[k][1], key) + DictGet(bonus[k][1], key)]>>
    IN  [experience |-> int("experience"), foundation |-> int("foundation"),
         philosophy |-> dict("philosophy"), elemental |-> dict("elemental")]

\* realm_multipliers of generate_spirit_stone_reward, in tenths, with its default
stone_multiplier(r) ==
    CASE r = "Qi Gathering" -> 10
      [] r = "Foundation Building" -> 15
      [] r = "Core Formation" -> 20
      [] r = "Nascent Soul" -> 30
      [] r = "Soul Transformation" -> 40
      [] OTHER -> 10

\* generate_spirit_stone_reward when every grade's roll succeeds and every amount
\* is the largest
richest_stone_reward(r) ==
    LET m == stone_multiplier(r)
    IN  [g \in SpiritStoneGrade |->
            CASE g = LOW -> Trunc(10 * m, 10)
              [] g = MID -> Trunc(3 * m, 10)
              [] g = HIGH -> Max(1, Trunc(m, 10))
              [] g = PEAK -> 1
              [] g = DIVINE -> IF m >= 20 THEN 1 ELSE 0]

----------------------------------------------------------------------------
(* ChoiceEncounterManager (src/choice_encounters.py) *)

Outcome(encounter, choice, outcome, exp, fnd, template) ==
    [encounter |-> encounter, choice |-> choice, outcome |-> outcome,
     experience |-> exp, foundation |-> fnd, negative_effect |-> template]

\* every consequence of every choice of _load_choice_encounters, with the effects
\* _apply_encounter_effect gives it on the modelled fields: experience and
\* foundation (0 where the key is absent) and the negative_effect dict (its index
\* in ChoiceEffects, 0 where absent). The spirit_stones effect adds nothing: the
\* grade lookup raises for every catalog key and the error is swallowed.
ChoiceOutcomes ==
    <<Outcome("Ancient Foundation Pill", 0, "success", 0, 15, 0),
      Outcome("Ancient Foundation Pill", 0, "failure", 0, 0, 1),
      Outcome("Ancient Foundation Pill", 1, "success", 0, 8, 0),
      Outcome("Ancient Foundation Pill", 1, "partial", 0, 3, 0),
      Outcome("Ancient Foundation Pill", 2, "success", 0, 0, 0),
      Outcome("Elemental Spirit Convergence", 0, "success", 0, 0, 0),
      Outcome("Elemental Spirit Convergence", 1, "success", 0, 0, 0),
      Outcome("Elemental Spirit Convergence", 2, "success", 0, 8, 0),
      Outcome("Elemental Spirit Convergence", 3, "success", 20, 0, 0),
      Outcome("Elemental Spirit Convergence", 4, "success", 0, 0, 0),
      Outcome("Elemental Spirit Convergence", 4, "failure", 0, 0, 2),
      Outcome("Mysterious Dao Monument", 0, "success", 0, 0, 0),
      Outcome("Mysterious Dao Monument", 0, "failure", 0, 0, 0),
      Outcome("Mysterious Dao Monument", 1, "success", 0, 5, 0),
      Outcome("Mysterious Dao Monument", 1, "failure", 0, 0, 0),
      Outcome("Mysterious Dao Monument", 2, "success", 25, 0, 0),
      Outcome("Mysterious Dao Monument", 2, "failure", 0, 0, 3),
      Outcome("Mysterious Dao Monument", 3, "success", 0, 0, 0),
      Outcome("Mysterious Dao Monument", 3, "partial", 0, 0, 0),
      Outcome("Mysterious Dao Monument", 3, "failure", 0, 0, 4),
      Outcome("Spirit Stone Mine Discovery", 0, "success", 0, 0, 0),
      Outcome("Spirit Stone Mine Discovery", 0, "failure", 0, 0, 5),
      Outcome("Spirit Stone Mine Discovery", 1, "success", 0, 0, 0),
      Outcome("Spirit Stone Mine Discovery", 1, "failure", 0, 0, 0),
      Outcome("Spirit Stone Mine Discovery", 2, "success", 0, 0, 0),
      Outcome("Spirit Stone Mine Discovery", 2, "failure", 0, 0, 0),
      Outcome("Senior Cultivator's Guidance", 0, "success", 0, 10, 0),
      Outcome("Senior Cultivator's Guidance", 0, "failure", 0, 0, 0),
      Outcome("Senior Cultivator's Guidance", 1, "success", 50, 8, 0),
      Outcome("Senior Cultivator's Guidance", 1, "failure", 0, 0, 6),
      Outcome("Senior Cultivator's Guidance", 2, "success", 0, 0, 0),
      Outcome("Senior Cultivator's Guidance", 2, "partial", 0, 0, 0),
      Outcome("Senior Cultivator's Guidance", 2, "failure", 0, 0, 0),
      Outcome("Senior Cultivator's Guidance", 3, "success", 15, 0, 0),
      Outcome("Senior Cultivator's Guidance", 3, "failure", 0, 0, 7),
      Outcome("Natural Lightning Formation", 0, "success", 0, 15, 0),
      Outcome("Natural Lightning Formation", 0, "failure", 0, -5, 8),
      Outcome("Natural Lightning Formation", 1, "success", 0, 6, 0),
      Outcome("Natural Lightning Formation", 1, "failure", 0, 0, 9),
      Outcome("Natural Lightning Formation", 2, "success", 20, 0, 0),
      Outcome("Natural Lightning Formation", 2, "failure", 0, 0, 0)>>

\* _apply_encounter_effect for "foundation": player.foundation_quality += value
apply_foundation_effect(fq, value) == fq + value

\* process_choice_encounter when the outcome roll selects consequence o; the
\* negative_effect dict is appended as it is, not copied
process_choice_encounter(p, o) ==
    LET c == ChoiceOutcomes[o]
    IN  [p EXCEPT
            !.experience = @ + c.experience,
            !.foundation_quality = apply_foundation_effect(@, c.foundation),
            !.ongoing_effects =
                IF c.negative_effect = 0 THEN @ ELSE Append(@, Shared(c.negative_effect))]

----------------------------------------------------------------------------
(* EnhancedPlayer (src/player.py) *)

\* The player and the objects it owns as one value p, with the fields
\* realm, stage, experience, foundation_quality, recovery_time,
\* breakthrough_failures, total_breakthroughs, ongoing_effects, effects_cured,
\* inventory, sessions_since_encounter, recent_encounter_types and
\* template_duration. The dao comprehension, the elemental affinities and the
\* statistics are not modelled: no modelled field is computed from them, except
\* that they shift probabilities that stay strictly between 0 and 1.

RECURSIVE StageUps(_)
\* the advancement loop of add_experience
StageUps(p) ==
    IF p.stage < 9 /\ p.experience >= get_stage_exp_requirement(p.realm, p.stage)
    THEN StageUps([p EXCEPT
                      !.experience = @ - get_stage_exp_requirement(p.realm, p.stage),
                      !.stage = @ + 1,
                      !.foundation_quality = @ + get_foundation_stage_bonus(p.stage + 1)])
    ELSE p

\* add_experience that adds the amount and never advances the stage
add_experience_without_advance(p, amount) == [p EXCEPT !.experience = @ + amount]

\* add_experience with an `if` in place of the `while`
add_experience_single_advance(p, amount) ==
    LET q == [p EXCEPT !.experience = @ + amount]
        required_exp == get_stage_exp_requirement(q.realm, q.stage)
    IN  IF q.stage < 9 /\ q.experience >= required_exp
        THEN [q EXCEPT !.experience = @ - required_exp, !.stage = @ + 1,
                       !.foundation_quality = @ + get_foundation_stage_bonus(q.stage + 1)]
        ELSE q

add_experience(p, amount) == StageUps([p EXCEPT !.experience = @ + amount])

RECURSIVE StageUpMessages(_)
\* the messages the advancement loop of add_experience collects, by kind: the
\* foundation bonus of a key stage, the advancement, and at stage 9 whether the
\* player is ready for a breakthrough
StageUpMessages(p) ==
    IF p.stage < 9 /\ p.experience >= get_stage_exp_requirement(p.realm, p.stage)
    THEN LET q == [p EXCEPT
                      !.experience = @ - get_stage_exp_requirement(p.realm, p.stage),
                      !.stage = @ + 1,
                      !.foundation_quality = @ + get_foundation_stage_bonus(p.stage + 1)]
         IN  (IF get_foundation_stage_bonus(q.stage) > 0 THEN <<"foundation">> ELSE <<>>)
             \o <<"advanced">>
             \o (IF q.stage = 9
                 THEN IF can_breakthrough_realm(q.realm, q.stage, q.foundation_quality).ok
                      THEN <<"ready">> ELSE <<"not ready">>
                 ELSE <<>>)
             \o StageUpMessages(q)
    ELSE <<>>

\* the messages add_experience returns
add_experience_messages(p, amount) ==
    StageUpMessages([p EXCEPT !.experience = @ + amount])

\* the lists _clear_breakthrough_effects can leave
clear_breakthrough_effects(effs) ==
    RemoveRandomNegatives(effs, Min(2, Cardinality(NegativeIndices(effs))))

\* the penalties of a failed attempt, result being what attempt_breakthrough
\* returned
breakthrough_failure(p, result) ==
    LET exp_loss == Trunc(p.experience * result.exp_loss_percent, 100)
    IN  [p EXCEPT
            !.breakthrough_failures = @ + 1,
            !.foundation_quality = Max(10, @ - result.foundation_damage),
            !.experience = Max(0, @ - exp_loss),
            !.recovery_time = result.recovery_time,
            !.ongoing_effects =
                Append(@, Effect("Qi Deviation", "negative", 70, result.recovery_time))]

\* a successful attempt that keeps the stage and the experience
breakthrough_success_keeping(p, result, cleared) ==
    [p EXCEPT
        !.realm = result.new_realm,
        !.total_breakthroughs = @ + 1,
        !.foundation_quality = @ + result.foundation_bonus,
        !.ongoing_effects = cleared]

\* the changes of a successful attempt; cleared is the list
\* _clear_breakthrough_effects leaves
breakthrough_success(p, result, cleared) ==
    [p EXCEPT
        !.realm = result.new_realm,
        !.stage = 1,
        !.experience = 0,
        !.total_breakthroughs = @ + 1,
        !.foundation_quality = @ + result.foundation_bonus,
        !.ongoing_effects = cleared]

\* attempt_realm_breakthrough for one draw d of the random numbers:
\* d.roll, d.bonus, d.damage, d.percent, d.recovery as in attempt_breakthrough and
\* d.clear choosing among the lists _clear_breakthrough_effects can leave
attempt_realm_breakthrough(p, d) ==
    IF p.recovery_time > 0
    THEN [player |-> p, outcome |-> "recovering"]
    ELSE IF ~can_breakthrough_realm(p.realm, p.stage, p.foundation_quality).ok
    THEN [player |-> p,
          outcome |-> can_breakthrough_realm(p.realm, p.stage, p.foundation_quality).reason]
    ELSE LET result == attempt_breakthrough(p.realm, d.roll, d.bonus, d.damage,
                                            d.percent, d.recovery)
         IN  IF result.success
             THEN [player |-> breakthrough_success(p, result, d.cleared),
                   outcome |-> "success"]
             ELSE [player |-> breakthrough_failure(p, result), outcome |-> "failure"]

\* the cultivation focus of cultivate_with_choice on foundation_quality: roll says
\* whether the aggressive damage or the balanced gain is rolled, amount is the
\* randint draw
focus_foundation(fq, focus, roll, amount) ==
    CASE focus = "foundation" -> fq + amount
      [] focus = "aggressive" -> IF roll THEN Max(10, fq - amount) ELSE fq
      [] OTHER -> IF roll THEN fq + amount ELSE fq

\* cultivate_with_choice without the recovery_time countdown at its head
cultivate_session_keeping_recovery(p, focus, d) ==
    LET modified_exp == apply_ongoing_effects(p.ongoing_effects, d.base_exp)
        mgr == process_encounter(p.sessions_since_encounter,
                                 p.recent_encounter_types, d.enc)
        rewards == IF d.enc = 0
                   THEN [experience |-> 0, foundation |-> 0, ongoing_effect |-> NoEffect]
                   ELSE generate_encounter_reward(d.enc, p.realm, d.bonus_exp, d.bonus_fnd)
        stones == IF d.enc = 0 THEN NoCost ELSE d.stones
    IN  add_experience(
            [p EXCEPT
                !.foundation_quality =
                    focus_foundation(@, focus, d.roll, d.amount) + rewards.foundation,
                !.sessions_since_encounter = mgr.sessions_since_encounter,
                !.recent_encounter_types = mgr.recent_encounter_types,
                !.ongoing_effects = @ \o rewards.ongoing_effect,
                !.inventory = [g \in SpiritStoneGrade |-> @[g] + stones[g]]],
            modified_exp + rewards.experience)

\* cultivate_with_choice up to and including add_experience, for one draw d:
\* d.base_exp, d.roll and d.amount for the focus, d.enc the encounter definition
\* met (0: none), d.bonus_exp and d.bonus_fnd its bonus rolls, d.stones the
\* spirit stone reward
cultivate_session(p, focus, d) ==
    LET modified_exp == apply_ongoing_effects(p.ongoing_effects, d.base_exp)
        mgr == process_encounter(p.sessions_since_encounter,
                                 p.recent_encounter_types, d.enc)
        rewards == IF d.enc = 0
                   THEN [experience |-> 0, foundation |-> 0, ongoing_effect |-> NoEffect]
                   ELSE generate_encounter_reward(d.enc, p.realm, d.bonus_exp, d.bonus_fnd)
        stones == IF d.enc = 0 THEN NoCost ELSE d.stones
    IN  add_experience(
            [p EXCEPT
                !.recovery_time = IF @ > 0 THEN @ - 1 ELSE @,
                !.foundation_quality =
                    focus_foundation(@, focus, d.roll, d.amount) + rewards.foundation,
                !.sessions_since_encounter = mgr.sessions_since_encounter,
                !.recent_encounter_types = mgr.recent_encounter_types,
                !.ongoing_effects = @ \o rewards.ongoing_effect,
                !.inventory = [g \in SpiritStoneGrade |-> @[g] + stones[g]]],
            modified_exp + rewards.experience)

\* the rest of cultivate_with_choice: natural recovery, the entries at the
\* positions in `recovered` rolling a recovery, then the cleanup of expired effects
cultivate_finish(p, recovered) ==
    LET c == cleanup_expired_effects(
                 process_natural_recovery(p.ongoing_effects, recovered),
                 p.template_duration)
    IN  [p EXCEPT !.ongoing_effects = c.effects,
                  !.template_duration = c.template_duration]

\* EnhancedPlayer.meditate_for_recovery: the lists it can leave, with its result
\* meditate_for_recovery with a successful roll cleansing one effect only
meditate_for_recovery_once(effs, roll) ==
    IF NegativeIndices(effs) = {} THEN {[ok |-> FALSE, effects |-> effs]}
    ELSE IF roll
    THEN {[ok |-> TRUE, effects |-> l] : l \in RemoveRandomNegatives(effs, 1)}
    ELSE {[ok |-> FALSE, effects |-> effs]}

meditate_for_recovery(effs, roll) ==
    IF NegativeIndices(effs) = {} THEN {[ok |-> FALSE, effects |-> effs]}
    ELSE IF roll
    THEN {[ok |-> TRUE, effects |-> l] :
             l \in RemoveRandomNegatives(effs, Min(2, Cardinality(NegativeIndices(effs))))}
    ELSE {[ok |-> FALSE, effects |-> effs]}

\* EffectResolutionSystem.cure_costs; an effect the dict does not name costs
\* nothing and cannot be cured
cure_costs(name) ==
    LET c(g1, n1, g2, n2) ==
            [g \in SpiritStoneGrade |-> IF g = g1 THEN n1 ELSE IF g = g2 THEN n2 ELSE 0]
    IN  CASE name = "Qi Stagnation" -> c(LOW, 15, MID, 2)
          [] name = "Meridian Blockage" -> c(LOW, 25, MID, 3)
          [] name = "Foundation Cracks" -> c(MID, 5, HIGH, 1)
          [] name = "Cultivation Deviation" -> c(MID, 8, HIGH, 2)
          [] name = "Heart Demon" -> c(HIGH, 3, PEAK, 1)
          [] name = "Chaotic Qi" -> c(LOW, 20, MID, 2)
          [] name = "Elemental Imbalance" -> c(MID, 4, HIGH, 1)
          [] name = "Spiritual Corruption" -> c(HIGH, 2, PEAK, 1)
          [] name = "Dao Confusion" -> c(HIGH, 4, PEAK, 2)
          [] name = "Void Taint" -> c(PEAK, 2, DIVINE, 1)
          [] name = "Technique Backlash" -> c(LOW, 10, MID, 1)
          [] name = "Elemental Rejection" -> c(MID, 3, HIGH, 1)
          [] name = "Cultivation Instability" -> c(MID, 6, HIGH, 2)
          [] OTHER -> NoCost

\* EnhancedPlayer.cure_effect
\* cure_effect removing every negative effect of that name instead of one
cure_effect_removing_all(p, effect_name) ==
    LET named(e) == EffName(e) = effect_name /\ EffType(e) = "negative"
        cost == cure_costs(effect_name)
        paid == pay_cost(p.inventory, cost)
    IN  IF \A i \in DOMAIN p.ongoing_effects : ~named(p.ongoing_effects[i])
        THEN [player |-> p, outcome |-> "not found"]
        ELSE IF cost = NoCost THEN [player |-> p, outcome |-> "no cure"]
        ELSE IF ~paid.ok THEN [player |-> p, outcome |-> "cannot afford"]
        ELSE [player |-> [p EXCEPT !.ongoing_effects =
                                       SelectSeq(@, LAMBDA e : ~named(e)),
                                   !.effects_cured = @ + 1,
                                   !.inventory = paid.inventory],
              outcome |-> "cured"]

cure_effect(p, effect_name) ==
    LET found == {i \in DOMAIN p.ongoing_effects :
                     /\ EffName(p.ongoing_effects[i]) = effect_name
                     /\ EffType(p.ongoing_effects[i]) = "negative"}
        effect_index == CHOOSE i \in found : \A j \in found : i <= j
        cost == cure_costs(effect_name)
        paid == pay_cost(p.inventory, cost)
    IN  IF found = {} THEN [player |-> p, outcome |-> "not found"]
        ELSE IF cost = NoCost THEN [player |-> p, outcome |-> "no cure"]
        ELSE IF ~can_afford_cost(p.inventory, cost)
        THEN [player |-> p, outcome |-> "cannot afford"]
        ELSE IF paid.ok
        THEN [player |-> [p EXCEPT !.ongoing_effects = Pop(@, effect_index),
                                   !.effects_cured = @ + 1,
                                   !.inventory = paid.inventory],
              outcome |-> "cured"]
        ELSE [player |-> [p EXCEPT !.inventory = paid.inventory], outcome |-> "failed"]

----------------------------------------------------------------------------
(* Inputs *)

\* cost maps with non-negative amounts that name at most two denominations, as
\* every entry of cure_costs does
Costs ==
    {c \in [SpiritStoneGrade -> 0..MaxCostAmt] :
        \E g1, g2 \in SpiritStoneGrade :
            \A g \in SpiritStoneGrade \ {g1, g2} : c[g] = 0}

\* ledgers the explored counts stay within
WithinCount(inv) == \A g \in SpiritStoneGrade : inv[g] <= MaxCount

\* the draws of random.randint(lo, hi) explored: its two ends
RandInt(lo, hi) == {lo, hi}

\* the dicts _generate_bonus_rewards can return
generate_bonus_rewards(type, r) ==
    LET m == reward_multiplier(r)
    IN  {Rewards(exp, fnd, philosophy, Absent) :
            exp \in {Absent, <<Trunc(base_bonus(type) * m, 10)>>},
            fnd \in {Absent} \cup
                    (IF type = "bottleneck" THEN {}
                     ELSE {<<a>> : a \in RandInt(1, Max(1, Trunc(3 * m, 10)))}),
            philosophy \in {Absent} \cup
                    {<<[k \in {chosen_philosophy} |-> a]>> :
                        chosen_philosophy \in {"balance", "power", "wisdom", "nature"},
                        a \in RandInt(1, Max(1, Trunc(2 * m, 10)))}}

\* the reward values of generate_encounter_reward for a definition's "rewards"
\* dict and one outcome of the bonus rolls
generate_rewards(d, r, bonus) ==
    merge_bonus_rewards(scale_rewards(d, reward_multiplier(r)), bonus)

\* the cultivation focus keys of get_cultivation_choices
Focuses == {"balanced", "foundation", "aggressive"}

\* the draws of the focus branch of cultivate_with_choice
FocusDraws(focus) ==
    CASE focus = "foundation" ->
            {[base_exp |-> e, roll |-> TRUE, amount |-> a] :
                e \in RandInt(3, 8), a \in RandInt(3, 8)}
      [] focus = "aggressive" ->
            {[base_exp |-> e, roll |-> a > 0, amount |-> a] :
                e \in RandInt(12, 20), a \in {0} \cup RandInt(1, 3)}
      [] OTHER ->
            {[base_exp |-> e, roll |-> a > 0, amount |-> a] :
                e \in RandInt(8, 15), a \in {0} \cup RandInt(1, 3)}

\* the encounter draws of a session: no encounter, or a definition the manager
\* can select, with no bonus roll succeeding or with every bonus roll succeeding
\* at its largest amount
EncounterDraws(p) ==
    {[enc |-> 0, bonus_exp |-> FALSE, bonus_fnd |-> 0, stones |-> NoCost]}
    \cup
    {[enc |-> i, bonus_exp |-> lucky,
      bonus_fnd |-> IF lucky THEN max_foundation_bonus(p.realm) ELSE 0,
      stones |-> IF lucky THEN richest_stone_reward(p.realm) ELSE NoCost] :
        i \in UNION {select_encounter(t, p.realm) :
                        t \in select_encounter_type(p.recent_encounter_types)},
        lucky \in BOOLEAN}

\* the focus draw a session with an encounter is explored with: the smallest
\* base experience and the smallest amount
QuietDraw(focus) ==
    CHOOSE f \in FocusDraws(focus) :
        \A g \in FocusDraws(focus) : f.base_exp <= g.base_exp /\ f.amount <= g.amount

\* the draws of a session: every focus draw without an encounter, and every
\* encounter draw on the quiet focus draw
SessionDraws(p, focus) ==
    {[base_exp |-> f.base_exp, roll |-> f.roll, amount |-> f.amount,
      enc |-> e.enc, bonus_exp |-> e.bonus_exp, bonus_fnd |-> e.bonus_fnd,
      stones |-> e.stones] :
        <<f, e>> \in {x \in FocusDraws(focus) \X EncounterDraws(p) :
                        x[2].enc = 0 \/ x[1] = QuietDraw(focus)}}

\* the recovery rolls of _process_natural_recovery: any subset of the negative
\* effects recovers, all of them once the chance reaches 1
RecoveryDraws(p) ==
    LET n == Cardinality(NegativeIndices(p.ongoing_effects))
    IN  IF recovery_chance(p.realm, p.foundation_quality) >= 1000
        THEN {1..n}
        ELSE SUBSET (1..n)

\* the draws of attempt_breakthrough and _clear_breakthrough_effects
BreakthroughDraws(effs) ==
    {[roll |-> TRUE, bonus |-> b, damage |-> 0, percent |-> 0, recovery |-> 0,
      cleared |-> c] :
        b \in RandInt(5, 15), c \in clear_breakthrough_effects(effs)}
    \cup
    {[roll |-> FALSE, bonus |-> 0, damage |-> dm, percent |-> pc, recovery |-> rc,
      cleared |-> effs] :
        dm \in RandInt(2, 8), pc \in RandInt(10, 30), rc \in RandInt(3, 7)}

----------------------------------------------------------------------------
(* The state machines *)

\* the player and the objects it owns, read from the variables
Player ==
    [realm |-> realm, stage |-> stage, experience |-> experience,
     foundation_quality |-> foundation_quality, recovery_time |-> recovery_time,
     breakthrough_failures |-> breakthrough_failures,
     total_breakthroughs |-> total_breakthroughs,
     ongoing_effects |-> ongoing_effects, effects_cured |-> effects_cured,
     inventory |-> inventory,
     sessions_since_encounter |-> sessions_since_encounter,
     recent_encounter_types |-> recent_encounter_types,
     template_duration |-> template_duration]

\* the variables hold p
Holds(p) ==
    /\ realm = p.realm
    /\ stage = p.stage
    /\ experience = p.experience
    /\ foundation_quality = p.foundation_quality
    /\ recovery_time = p.recovery_time
    /\ breakthrough_failures = p.breakthrough_failures
    /\ total_breakthroughs = p.total_breakthroughs
    /\ ongoing_effects = p.ongoing_effects
    /\ effects_cured = p.effects_cured
    /\ inventory = p.inventory
    /\ sessions_since_encounter = p.sessions_since_encounter
    /\ recent_encounter_types = p.recent_encounter_types
    /\ template_duration = p.template_duration

\* the variables become p
Becomes(p) ==
    /\ realm' = p.realm
    /\ stage' = p.stage
    /\ experience' = p.experience
    /\ foundation_quality' = p.foundation_quality
    /\ recovery_time' = p.recovery_time
    /\ breakthrough_failures' = p.breakthrough_failures
    /\ total_breakthroughs' = p.total_breakthroughs
    /\ ongoing_effects' = p.ongoing_effects
    /\ effects_cured' = p.effects_cured
    /\ inventory' = p.inventory
    /\ sessions_since_encounter' = p.sessions_since_encounter
    /\ recent_encounter_types' = p.recent_encounter_types
    /\ template_duration' = p.template_duration

\* EnhancedPlayer.__init__ with SpiritStoneManager.__init__,
\* SmartEncounterManager.__init__ and the freshly loaded choice catalog
NewPlayer ==
    [realm |-> "Body Tempering", stage |-> 1, experience |-> 0,
     foundation_quality |-> 10, recovery_time |-> 0,
     breakthrough_failures |-> 0, total_breakthroughs |-> 0,
     ongoing_effects |-> <<>>, effects_cured |-> 0,
     inventory |-> <<50, 15, 3, 0, 0>>,
     sessions_since_encounter |-> 0, recent_encounter_types |-> <<>>,
     template_duration |-> [k \in Templates |-> ChoiceEffects[k].remaining_duration]]

NoCall == [op |-> "none"]
\* the draw recorded for an attempt that was refused before any draw
NoDraw == [roll |-> FALSE]
Idle == last.op = "none"

\* the observed call returns to its caller; the next operation may start
Return ==
    /\ ~Idle
    /\ last' = NoCall
    /\ UNCHANGED <<inventory, playerVars>>

(* SpiritStoneManager alone *)

LedgerInit ==
    /\ \E inv \in [SpiritStoneGrade -> 0..MaxCount] :
           Holds([NewPlayer EXCEPT !.inventory = inv])
    /\ steps = 0
    /\ last = NoCall

AddStones ==
    \E grade \in SpiritStoneGrade, amount \in 0..MaxAmount :
        /\ Idle
        /\ WithinCount(add_stones(inventory, grade, amount))
        /\ inventory' = add_stones(inventory, grade, amount)
        /\ last' = [op |-> "add_stones", pre |-> inventory, grade |-> grade,
                    amount |-> amount]
        /\ UNCHANGED playerVars

AddStonesNegative ==
    \E grade \in SpiritStoneGrade, amount \in (-MaxAmount)..(-1) :
        /\ Idle
        /\ inventory' = add_stones(inventory, grade, amount)
        /\ last' = [op |-> "add_stones", pre |-> inventory, grade |-> grade,
                    amount |-> amount]
        /\ UNCHANGED playerVars

RemoveStones ==
    \E grade \in SpiritStoneGrade, amount \in (-MaxAmount)..MaxAmount :
        LET r == remove_stones(inventory, grade, amount)
        IN  /\ Idle
            /\ WithinCount(r.inventory)
            /\ inventory' = r.inventory
            /\ last' = [op |-> "remove_stones", pre |-> inventory, grade |-> grade,
                        amount |-> amount, ok |-> r.ok]
            /\ UNCHANGED playerVars

PayCost ==
    \E cost \in Costs :
        LET r == pay_cost(inventory, cost)
        IN  /\ Idle
            /\ inventory' = r.inventory
            /\ last' = [op |-> "pay_cost", pre |-> inventory, cost |-> cost,
                        ok |-> r.ok, exact |-> r.exact]
            /\ UNCHANGED playerVars

LedgerNext == AddStones \/ RemoveStones \/ PayCost \/ Return

LedgerSpec == LedgerInit /\ [][LedgerNext]_vars

\* a ledger that has once gone negative is not explored further
LedgerAnyNext ==
    \/ AddStones
    \/ RemoveStones
    \/ PayCost
    \/ Return
    \/ (AddStonesNegative /\ \A g \in SpiritStoneGrade : inventory[g] >= 0)

LedgerAnySpec == LedgerInit /\ [][LedgerAnyNext]_vars

(* EnhancedPlayer and its collaborators *)

\* States of play the exploration starts from: the new player, and players further
\* along whose fields are such as play produces them (a stage reached with the
\* foundation its stage bonuses gave, lowered by aggressive sessions or failed
\* attempts where it is lower).
Checkpoints ==
    {NewPlayer,
     \* about to reach stage 9 of the first realm
     [NewPlayer EXCEPT !.stage = 8, !.experience = 170, !.foundation_quality = 28,
                       !.sessions_since_encounter = 4],
     \* stage 9 of the first realm, foundation above its requirement
     [NewPlayer EXCEPT !.stage = 9, !.experience = 40, !.foundation_quality = 46,
                       !.sessions_since_encounter = 2,
                       !.recent_encounter_types = <<"insight">>],
     \* Qi Gathering stage 9, foundation 50 against a requirement of 40
     [NewPlayer EXCEPT !.realm = "Qi Gathering", !.stage = 9, !.experience = 100,
                       !.foundation_quality = 50, !.total_breakthroughs = 1],
     \* Qi Gathering stage 9, foundation one short, carrying two bottlenecks
     [NewPlayer EXCEPT !.realm = "Qi Gathering", !.stage = 9, !.experience = 7,
                       !.foundation_quality = 39, !.total_breakthroughs = 1,
                       !.breakthrough_failures = 2,
                       !.ongoing_effects =
                           <<Effect("Qi Stagnation", "negative", 85, None),
                             Effect("Chaotic Qi", "negative", 90, 2)>>,
                       !.recent_encounter_types = <<"bottleneck", "anomaly">>],
     \* Foundation Building, where rare encounters begin, just arrived at stage 9
     [NewPlayer EXCEPT !.realm = "Foundation Building", !.stage = 9,
                       !.experience = 5, !.foundation_quality = 96,
                       !.total_breakthroughs = 2,
                       !.recent_encounter_types = <<"insight", "technique">>],
     \* stage 9 of the final realm
     [NewPlayer EXCEPT !.realm = "Heavenly Immortal", !.stage = 9,
                       !.experience = 1000, !.foundation_quality = 2000,
                       !.total_breakthroughs = 9]}

Init ==
    /\ \E p \in Checkpoints : Holds(p)
    /\ steps = 0
    /\ last = NoCall

\* EnhancedPlayer.cultivate_with_choice
CultivateWithChoice(limit) ==
    /\ Idle
    /\ steps < limit
    /\ \E focus \in Focuses :
         \E d \in SessionDraws(Player, focus) :
           \E recovered \in RecoveryDraws(cultivate_session(Player, focus, d)) :
                /\ Becomes(cultivate_finish(cultivate_session(Player, focus, d),
                                            recovered))
                /\ steps' = steps + 1
                /\ last' = [op |-> "cultivate_with_choice", pre |-> Player,
                            focus |-> focus, draw |-> d, recovered |-> recovered]

\* ChoiceEncounterManager.process_choice_encounter, for every encounter, choice
\* and consequence of the catalog (get_choice_encounter gives every rarity of the
\* catalog a positive weight in every realm)
ProcessChoiceEncounter(limit) ==
    /\ Idle
    /\ steps < limit
    /\ \E o \in DOMAIN ChoiceOutcomes :
        /\ Becomes(process_choice_encounter(Player, o))
        /\ steps' = steps + 1
        /\ last' = [op |-> "process_choice_encounter", pre |-> Player, outcome |-> o]

\* EnhancedPlayer.attempt_realm_breakthrough
AttemptRealmBreakthrough(limit) ==
    /\ Idle
    /\ steps < limit
    /\ \E d \in BreakthroughDraws(ongoing_effects) :
        LET r == attempt_realm_breakthrough(Player, d)
        IN  /\ Becomes(r.player)
            /\ steps' = steps + 1
            /\ last' = [op |-> "attempt_realm_breakthrough", pre |-> Player,
                        outcome |-> r.outcome,
                        draw |-> IF r.outcome \in {"success", "failure"} THEN d
                                 ELSE NoDraw]

\* the meditation handler of the game loop (main.py): with no negative effect
\* the optional meditation for growth, gain being 0 when declined; otherwise
\* EnhancedPlayer.meditate_for_recovery and, on success, the foundation bonus
MeditateForRecovery(limit) ==
    /\ Idle
    /\ steps < limit
    /\ \E roll \in BOOLEAN, gain \in {0} \cup RandInt(1, 3), bonus \in RandInt(1, 2) :
        \E m \in meditate_for_recovery(ongoing_effects, roll) :
          LET fq == IF NegativeIndices(ongoing_effects) = {}
                    THEN foundation_quality + gain
                    ELSE IF m.ok THEN foundation_quality + bonus
                    ELSE foundation_quality
          IN  /\ Becomes([Player EXCEPT !.ongoing_effects = m.effects,
                                        !.foundation_quality = fq])
              /\ steps' = steps + 1
              /\ last' = [op |-> "meditate_for_recovery", pre |-> Player,
                          ok |-> m.ok]

\* EnhancedPlayer.cure_effect, for the name of an effect carried or a name that
\* is not
CureEffect(limit) ==
    /\ Idle
    /\ steps < limit
    /\ \E effect_name \in {EffName(ongoing_effects[i]) : i \in DOMAIN ongoing_effects}
                          \cup {"Heart Demon"} :
        LET r == cure_effect(Player, effect_name)
        IN  /\ Becomes(r.player)
            /\ steps' = steps + 1
            /\ last' = [op |-> "cure_effect", pre |-> Player,
                        effect_name |-> effect_name, outcome |-> r.outcome]

\* every operation, at most `limit` of them in one exploration
Operation(limit) ==
    \/ CultivateWithChoice(limit)
    \/ ProcessChoiceEncounter(limit)
    \/ AttemptRealmBreakthrough(limit)
    \/ MeditateForRecovery(limit)
    \/ CureEffect(limit)

Next == Operation(MaxSteps) \/ Return

Spec == Init /\ [][Next]_vars

\* the same player explored one operation further
LongNext == Operation(MaxSteps + 1) \/ Return

LongSpec == Init /\ [][LongNext]_vars

----------------------------------------------------------------------------
(* The pure functions of the realm engine and of the effect list, applied to
   inputs drawn from bounded sets *)

\* foundation values are drawn as quarters of the realm's requirement, up to
\* this many quarters
MaxQuarters == 12

\* the bonus_factors dicts drawn, as the sequence of their values in
\* thousandths: none, the two the player can pass (dao_mastery at most 0.15 and
\* foundation_stability), and sums far outside [0.05, 0.95] on both sides
BonusFactorDraws ==
    {<<>>, <<150>>, <<150, 20>>, <<24>>, <<10000>>, <<5000, 5000>>,
     <<-300>>, <<-10000>>, <<-10000, 150>>}

PureInit ==
    /\ Holds(NewPlayer)
    /\ steps = 0
    /\ last = NoCall

\* RealmStageManager.calculate_breakthrough_success_rate
CalculateBreakthroughSuccessRate ==
    /\ Idle
    /\ \E r \in Realms, q \in 0..MaxQuarters, b \in BonusFactorDraws :
        LET fq == (q * foundation_requirement[r]) \div 4
        IN  last' = [op |-> "calculate_breakthrough_success_rate", realm |-> r,
                     foundation_quality |-> fq, bonus_factors |-> b,
                     rate |-> calculate_breakthrough_success_rate(r, fq, b)]
    /\ UNCHANGED <<inventory, playerVars>>

RECURSIVE RequirementsThrough(_, _, _)
\* get_stage_exp_requirement summed over the stages from..to
RequirementsThrough(r, from, to) ==
    IF from > to THEN 0
    ELSE get_stage_exp_requirement(r, from) + RequirementsThrough(r, from + 1, to)

\* the amounts granted to a player of realm r at stage s: nothing, one point,
\* one short of the stage's requirement, the requirement, the next stage's
\* requirement, enough for two stages, and enough for every stage up to 8 and
\* up to 9
ExperienceGrants(r, s) ==
    {0, 1, get_stage_exp_requirement(r, s) - 1, get_stage_exp_requirement(r, s),
     get_stage_exp_requirement(r, s + 1),
     get_stage_exp_requirement(r, s) + get_stage_exp_requirement(r, s + 1),
     RequirementsThrough(r, s, 8), RequirementsThrough(r, s, 9)}

AddExperience ==
    /\ Idle
    /\ \E r \in Realms, s \in 1..9 :
        \E amount \in ExperienceGrants(r, s),
           held \in {0, get_stage_exp_requirement(r, s) - 1} :
          LET p == [NewPlayer EXCEPT !.realm = r, !.stage = s,
                                     !.experience = held,
                                     !.foundation_quality = foundation_requirement[r]]
          IN  last' = [op |-> "add_experience", pre |-> p, amount |-> amount,
                       result |-> add_experience(p, amount),
                       messages |-> add_experience_messages(p, amount)]
    /\ UNCHANGED <<inventory, playerVars>>

\* RealmStageManager.get_stage_exp_requirement, for a stage and the one after it
GetStageExpRequirement ==
    /\ Idle
    /\ \E r \in Realms, s \in 0..10 :
        last' = [op |-> "get_stage_exp_requirement", realm |-> r, stage |-> s,
                 requirement |-> get_stage_exp_requirement(r, s),
                 next_requirement |-> get_stage_exp_requirement(r, s + 1)]
    /\ UNCHANGED <<inventory, playerVars>>

\* longest effect list drawn
MaxEffects == 3
\* largest remaining duration drawn
MaxDuration == 2
\* largest base experience drawn
MaxBaseExp == 3

\* the effect dicts the lists are drawn from: the Qi Deviation of a failed
\* breakthrough at each remaining duration, a permanent bottleneck, a positive
\* technique effect, and the Pill Poisoning dict of the choice catalog itself
EffectPool ==
    {Effect("Qi Deviation", "negative", 70, d) : d \in 0..MaxDuration}
    \cup {Effect("Qi Stagnation", "negative", 85, None),
          Effect("Master's Guidance", "positive", 120, 1),
          Shared(1)}

EffectLists == UNION {[1..n -> EffectPool] : n \in 0..MaxEffects}

\* the catalog dicts' durations drawn: Pill Poisoning at each remaining duration
TemplateDurations ==
    {[NewPlayer.template_duration EXCEPT ![1] = d] : d \in 0..MaxDuration}

\* the list as its dicts show it: name, type and remaining duration of each entry
EffectView(effs, td) ==
    [i \in DOMAIN effs |->
        [name |-> EffName(effs[i]), type |-> EffType(effs[i]),
         remaining_duration |-> EffRemaining(effs[i], td)]]

RECURSIVE KeptFrom(_, _, _)
\* the positions of the entries the loop of _cleanup_expired_effects keeps, from
\* entry i on
KeptFrom(effs, i, td) ==
    IF i > Len(effs) THEN {}
    ELSE LET remaining == EffRemaining(effs[i], td)
         IN  IF remaining = None THEN {i} \cup KeptFrom(effs, i + 1, td)
             ELSE IF remaining > 0
                  THEN {i} \cup KeptFrom(effs, i + 1,
                                   IF IsShared(effs[i])
                                   THEN [td EXCEPT ![effs[i].template] = remaining - 1]
                                   ELSE td)
                  ELSE KeptFrom(effs, i + 1, td)

\* the positions, in the snapshot of negative effects, of the entries of effs at
\* the positions in `entries`
SnapshotPositions(effs, entries) ==
    {Cardinality({j \in NegativeIndices(effs) : j <= i}) :
        i \in entries \cap NegativeIndices(effs)}

\* _process_natural_recovery, then _cleanup_expired_effects, the recovery rolls
\* succeeding for the entries at the positions in `entries`
recover_then_tick(effs, td, entries) ==
    cleanup_expired_effects(
        process_natural_recovery(effs, SnapshotPositions(effs, entries)), td)

\* _cleanup_expired_effects, then _process_natural_recovery, with the same roll
\* for each entry that is still in the list
tick_then_recover(effs, td, entries) ==
    LET t == cleanup_expired_effects(effs, td)
        kept == KeptFrom(effs, 1, td)
        moved == {Cardinality({j \in kept : j <= i}) : i \in entries \cap kept}
    IN  [effects |-> process_natural_recovery(
                         t.effects, SnapshotPositions(t.effects, moved)),
         template_duration |-> t.template_duration]

\* EnhancedPlayer._cleanup_expired_effects
CleanupExpiredEffects ==
    /\ Idle
    /\ \E effs \in EffectLists, td \in TemplateDurations :
        last' = [op |-> "cleanup_expired_effects", effects |-> effs,
                 template_duration |-> td,
                 result |-> cleanup_expired_effects(effs, td)]
    /\ UNCHANGED <<inventory, playerVars>>

\* EnhancedPlayer._apply_ongoing_effects
ApplyOngoingEffects ==
    /\ Idle
    /\ \E effs \in EffectLists, base_exp \in 1..MaxBaseExp :
        last' = [op |-> "apply_ongoing_effects", effects |-> effs,
                 base_exp |-> base_exp,
                 result |-> apply_ongoing_effects(effs, base_exp)]
    /\ UNCHANGED <<inventory, playerVars>>

\* _process_natural_recovery and _cleanup_expired_effects in both orders
ProcessRecoveryAndCleanup ==
    /\ Idle
    /\ \E effs \in EffectLists, td \in TemplateDurations :
        \E entries \in SUBSET NegativeIndices(effs) :
          last' = [op |-> "recovery_and_cleanup", effects |-> effs,
                   template_duration |-> td, recovered |-> entries,
                   recovery_first |-> recover_then_tick(effs, td, entries),
                   cleanup_first |-> tick_then_recover(effs, td, entries)]
    /\ UNCHANGED <<inventory, playerVars>>

\* "rewards" dicts of the encounter catalog (Heavenly Insight, Foundation
\* Enlightenment, Elemental Resonance with one boost of _random_elemental_boost,
\* Spatial Rift, Ancient Manual), a definition without rewards, and a
\* definition granting experience 50 and wisdom 5
RewardDraws ==
    {<<"insight", Rewards(<<50>>, Absent,
                          <<[k \in {"wisdom", "balance"} |->
                                IF k = "wisdom" THEN 5 ELSE 3]>>, Absent)>>,
     <<"insight", Rewards(<<30>>, <<5>>, <<[k \in {"balance"} |-> 2]>>, Absent)>>,
     <<"insight", Rewards(<<20>>, Absent, Absent,
                          <<[k \in {"fire", "water"} |->
                                IF k = "fire" THEN 15 ELSE 7]>>)>>,
     <<"anomaly", Rewards(<<-20>>, Absent, Absent, Absent)>>,
     <<"technique", Rewards(<<35>>, Absent,
                            <<[k \in {"wisdom", "power"} |-> 1]>>, Absent)>>,
     <<"bottleneck", Rewards(Absent, Absent, Absent, Absent)>>,
     <<"insight", Rewards(<<50>>, Absent, <<[k \in {"wisdom"} |-> 5]>>, Absent)>>}

GenerateEncounterReward ==
    /\ Idle
    /\ \E d \in RewardDraws, r \in Realms :
        \E bonus \in generate_bonus_rewards(d[1], r) :
          last' = [op |-> "generate_encounter_reward", encounter_type |-> d[1],
                   definition |-> d[2], realm |-> r, bonus |-> bonus,
                   rewards |-> generate_rewards(d[2], r, bonus)]
    /\ UNCHANGED <<inventory, playerVars>>

\* one cultivation session of a new player who carries up to two of the pool's
\* effects: cultivate_with_choice from its first line to its last
CultivateSession ==
    /\ Idle
    /\ \E effs \in {l \in EffectLists : Len(l) <= 2}, td \in TemplateDurations,
          focus \in Focuses :
        LET p == [NewPlayer EXCEPT !.ongoing_effects = effs,
                                   !.template_duration = td]
        IN  \E d \in SessionDraws(p, focus) :
              \E recovered \in RecoveryDraws(cultivate_session(p, focus, d)) :
                last' = [op |-> "cultivate_session", pre |-> p, focus |-> focus,
                         draw |-> d, recovered |-> recovered,
                         result |-> cultivate_finish(cultivate_session(p, focus, d),
                                                     recovered)]
    /\ UNCHANGED <<inventory, playerVars>>

PureNext ==
    \/ CalculateBreakthroughSuccessRate
    \/ AddExperience
    \/ GetStageExpRequirement
    \/ CleanupExpiredEffects
    \/ ApplyOngoingEffects
    \/ ProcessRecoveryAndCleanup
    \/ GenerateEncounterReward
    \/ CultivateSession
    \/ Return

PureSpec == PureInit /\ [][PureNext]_vars

----------------------------------------------------------------------------
(* Curing and meditation on a player who carries effects *)

\* the dicts a Core Formation cultivator's ongoing_effects holds: Qi Stagnation
\* (cure 15 LOW + 2 MID), Heart Demon (cure 3 HIGH + 1 PEAK), Qi Deviation of a
\* failed breakthrough (no cure), Chaotic Qi part-way through its sessions
\* (cure 20 LOW + 2 MID) and the positive Master's Guidance
CarriedPool ==
    {Effect("Qi Stagnation", "negative", 85, None),
     Effect("Heart Demon", "negative", 50, None),
     Effect("Qi Deviation", "negative", 70, 2),
     Effect("Master's Guidance", "positive", 120, 8)}
    \cup {Effect("Chaotic Qi", "negative", 90, d) : d \in 1..MaxDuration}

\* ongoing_effects of up to MaxEffects dicts
CarriedLists == UNION {[1..n -> CarriedPool] : n \in 0..MaxEffects}

\* the ledger of a new player, an empty one, one stone short of the cheapest
\* cure, the cheapest cure in LOW stones only, in its own denominations, and
\* PEAK stones only
CarriedInventories ==
    {<<50, 15, 3, 0, 0>>, <<0, 0, 0, 0, 0>>, <<34, 0, 0, 0, 0>>,
     <<35, 0, 0, 0, 0>>, <<15, 2, 0, 0, 0>>, <<0, 0, 0, 2, 0>>}

RecoveryInit ==
    /\ \E effs \in CarriedLists, inv \in CarriedInventories :
          Holds([NewPlayer EXCEPT !.realm = "Core Formation", !.stage = 5,
                                  !.foundation_quality = 100,
                                  !.total_breakthroughs = 2,
                                  !.breakthrough_failures = 1,
                                  !.ongoing_effects = effs,
                                  !.inventory = inv])
    /\ steps = 0
    /\ last = NoCall

RecoveryNext ==
    \/ CureEffect(MaxSteps)
    \/ MeditateForRecovery(MaxSteps)
    \/ Return

RecoverySpec == RecoveryInit /\ [][RecoveryNext]_vars

----------------------------------------------------------------------------
(* SmartEncounterManager alone, over a run of cultivation sessions *)

\* number of sessions the manager is followed for
MaxSessions == 7

\* the effect list as json.dump writes it: every entry a dict of its own, with
\* the duration it shows at that moment
saved_effects(effs, td) ==
    [i \in DOMAIN effs |->
        Effect(EffName(effs[i]), EffType(effs[i]), EffMultiplier(effs[i]),
               EffRemaining(effs[i], td))]

\* SaveSystem._enhanced_player_to_dict: the saved dict (effects are written as
\* the dicts show at that moment, the manager's state under its own key)
enhanced_player_to_dict(p) ==
    [realm |-> p.realm, stage |-> p.stage, experience |-> p.experience,
     foundation_quality |-> p.foundation_quality,
     recovery_time |-> p.recovery_time,
     breakthrough_failures |-> p.breakthrough_failures,
     total_breakthroughs |-> p.total_breakthroughs,
     ongoing_effects |-> saved_effects(p.ongoing_effects, p.template_duration),
     effects_cured |-> p.effects_cured,
     spirit_stones |-> p.inventory,
     encounter_manager_state |->
         [sessions_since_encounter |-> p.sessions_since_encounter,
          recent_encounter_types |-> p.recent_encounter_types]]

\* EnhancedPlayer.from_save_data: a new player with the fields it reads from
\* the saved dict; encounter_manager_state is not among them
from_save_data(save_data) ==
    [NewPlayer EXCEPT !.realm = save_data.realm,
                      !.stage = save_data.stage,
                      !.experience = save_data.experience,
                      !.foundation_quality = save_data.foundation_quality,
                      !.recovery_time = save_data.recovery_time,
                      !.breakthrough_failures = save_data.breakthrough_failures,
                      !.total_breakthroughs = save_data.total_breakthroughs,
                      !.ongoing_effects = save_data.ongoing_effects,
                      !.effects_cured = save_data.effects_cured,
                      !.inventory = save_data.spirit_stones]

\* longest run of quiet sessions the manager starts from
MaxDrought == 30

\* a new manager, after up to MaxDrought sessions in which no encounter fired
EncounterInit ==
    /\ \E since \in 0..MaxDrought :
          Holds([NewPlayer EXCEPT !.sessions_since_encounter = since])
    /\ steps = 0
    /\ last = NoCall

\* process_encounter for one session: the roll fails, or a type and one of its
\* definitions are selected
ProcessEncounter ==
    /\ Idle
    /\ steps < MaxSessions
    /\ \E enc \in {0} \cup UNION {select_encounter(t, realm) :
                                    t \in select_encounter_type(recent_encounter_types)} :
        LET mgr == process_encounter(sessions_since_encounter,
                                     recent_encounter_types, enc)
        IN  /\ Becomes([Player EXCEPT
                           !.sessions_since_encounter = mgr.sessions_since_encounter,
                           !.recent_encounter_types = mgr.recent_encounter_types])
            /\ steps' = steps + 1
            /\ last' = [op |-> "process_encounter",
                        since |-> sessions_since_encounter,
                        chance |-> calculate_encounter_chance(
                                       sessions_since_encounter + 1),
                        recent |-> recent_encounter_types,
                        encounter_type |-> IF enc = 0 THEN "none"
                                           ELSE Encounters[enc].type]

\* the game is saved and started again: save_player, then load_existing_game
LoadExistingGame ==
    /\ Idle
    /\ steps < MaxSessions
    /\ LET save_data == enhanced_player_to_dict(Player)
       IN  /\ Becomes(from_save_data(save_data))
           /\ last' = [op |-> "load_existing_game",
                       saved |-> save_data.encounter_manager_state]
    /\ UNCHANGED steps

EncounterNext ==
    \/ ProcessEncounter
    \/ LoadExistingGame
    \/ Return

EncounterSpec == EncounterInit /\ [][EncounterNext]_vars

----------------------------------------------------------------------------
(* Recovery from a failed breakthrough *)

\* number of operations a recovering player is followed for; sessions go on
\* past it while recovery_time is positive
MaxOperations == 5

\* a player at stage 9 whose foundation meets the realm's requirement
RecoveringInit ==
    /\ \E p \in {q \in Checkpoints :
                    can_breakthrough_realm(q.realm, q.stage, q.foundation_quality).ok} :
          Holds(p)
    /\ steps = 0
    /\ last = NoCall

\* a balanced session in which no encounter fires, on its smallest draw
QuietSession ==
    /\ Idle
    /\ steps < MaxOperations \/ recovery_time > 0
    /\ \E p \in {Player} :
       \E f \in {QuietDraw("balanced")} :
       \E d \in {[base_exp |-> f.base_exp, roll |-> f.roll, amount |-> f.amount,
                 enc |-> 0, bonus_exp |-> FALSE, bonus_fnd |-> 0, stones |-> NoCost]} :
       \E after \in {cultivate_session(p, "balanced", d)} :
       \E recovered \in RecoveryDraws(after) :
       \E result \in {cultivate_finish(after, recovered)} :
          /\ Becomes(result)
          /\ steps' = steps + 1
          /\ last' = [op |-> "cultivate_with_choice", pre |-> p,
                      focus |-> "balanced", draw |-> d, recovered |-> recovered]

RecoveringNext ==
    \/ QuietSession
    \/ AttemptRealmBreakthrough(MaxOperations)
    \/ MeditateForRecovery(MaxOperations)
    \/ CureEffect(MaxOperations)
    \/ Return

RecoveringSpec == RecoveringInit /\ [][RecoveringNext]_vars

\* the player keeps choosing to cultivate, and every call returns
RecoveringFairSpec ==
    RecoveringSpec /\ WF_vars(QuietSession) /\ WF_vars(Return)

----------------------------------------------------------------------------
(* The ledger's contracts, under LedgerSpec and LedgerAnySpec *)

\* C1: whenever can_afford_cost holds of a ledger and a cost map with non-negative
\* amounts, pay_cost of that cost on that ledger succeeds, also when the payment
\* goes by conversion.
C1_AffordableCostIsPaid ==
    (last.op = "pay_cost" /\ can_afford_cost(last.pre, last.cost)) => last.ok

\* a payment that succeeded by conversion where no single denomination held the
\* cost's value, stones of two denominations being spent
C1_ConversionAcrossDenominations ==
    /\ last.op = "pay_cost"
    /\ can_afford_cost(last.pre, last.cost)
    /\ last.ok
    /\ ~last.exact
    /\ \A g \in SpiritStoneGrade :
           last.pre[g] * EXCHANGE_RATES[g] < total_cost(last.cost)
    /\ Cardinality({g \in SpiritStoneGrade : inventory[g] < last.pre[g]}) >= 2

\* C2: a successful pay_cost lowers the ledger's total value by exactly the
\* cost's value, also on the conversion path; paying {Mid: 5} from
\* {Low: 0, Mid: 2, High: 1} succeeds and leaves a total of at least the old
\* total less 50 and at most the old total.
C2_PaymentDeductsExactly ==
    last.op = "pay_cost" =>
        /\ last.ok =>
               get_total_value_in_low_grade(inventory)
                   = get_total_value_in_low_grade(last.pre) - total_cost(last.cost)
        /\ (last.cost = <<0, 5, 0, 0, 0>> /\ last.pre = <<0, 2, 1, 0, 0>>) =>
               /\ last.ok
               /\ get_total_value_in_low_grade(inventory)
                      >= get_total_value_in_low_grade(last.pre) - 50
               /\ get_total_value_in_low_grade(inventory)
                      <= get_total_value_in_low_grade(last.pre)

\* the denominations from which the observed payment took at least one stone
TakenFrom == {g \in SpiritStoneGrade : inventory[g] < last.pre[g]}

\* the value the observed payment removed beyond the cost's value
Overpaid ==
    get_total_value_in_low_grade(last.pre) - get_total_value_in_low_grade(inventory)
        - total_cost(last.cost)

\* C28: when pay_cost pays by conversion, stones are only removed (no count
\* rises, no change is given back), and the value removed exceeds the cost's
\* value by strictly less than the exchange rate of the lowest denomination
\* from which a stone was taken.
C28_ConversionOverpaysBelowOneStone ==
    (last.op = "pay_cost" /\ last.ok /\ ~last.exact) =>
        /\ \A g \in SpiritStoneGrade : inventory[g] <= last.pre[g]
        /\ TakenFrom # {}
        /\ Overpaid >= 0
        /\ Overpaid < EXCHANGE_RATES[CHOOSE g \in TakenFrom :
                                         \A h \in TakenFrom : g <= h]

\* a payment by conversion that took stones of two denominations and removed
\* more than the cost's value
C28_OverpaidAcrossDenominations ==
    /\ last.op = "pay_cost"
    /\ last.ok
    /\ ~last.exact
    /\ Cardinality(TakenFrom) >= 2
    /\ Overpaid > 0

\* C3: after any sequence of add_stones with non-negative amounts, remove_stones
\* and pay_cost with non-negative costs, succeeding or refused, every
\* denomination count is at least zero.
C3_CountsNeverNegative == \A g \in SpiritStoneGrade : inventory[g] >= 0

\* remove_stones asked for more than the ledger holds, and refused
C3_RemovalRefused ==
    /\ last.op = "remove_stones"
    /\ last.amount > last.pre[last.grade]
    /\ ~last.ok
    /\ \A g \in SpiritStoneGrade : inventory[g] >= 0

\* C4: add_stones with a negative amount is rejected or ignored and leaves every
\* denomination count unchanged.
C4_NegativeDepositIgnored ==
    (last.op = "add_stones" /\ last.amount < 0) => inventory = last.pre

\* C5: when the cost's value exceeds the ledger's total value, can_afford_cost is
\* false, pay_cost fails and every count is unchanged; a refused payment never
\* leaves a partial deduction behind.
C5_UnaffordableCostRefused ==
    last.op = "pay_cost" =>
        /\ total_cost(last.cost) > get_total_value_in_low_grade(last.pre) =>
               /\ ~can_afford_cost(last.pre, last.cost)
               /\ ~last.ok
               /\ inventory = last.pre
        /\ ~last.ok => inventory = last.pre

\* a payment refused on a ledger that holds stones of two denominations
C5_RefusedOnNonEmptyLedger ==
    /\ last.op = "pay_cost"
    /\ total_cost(last.cost) > get_total_value_in_low_grade(last.pre)
    /\ Cardinality({g \in SpiritStoneGrade : last.pre[g] > 0}) >= 2
    /\ ~last.ok
    /\ inventory = last.pre

----------------------------------------------------------------------------
(* The player's contracts, under Spec and LongSpec *)

\* the observed call is an attempt at a breakthrough
AttemptObserved == last.op = "attempt_realm_breakthrough"

\* the player p may attempt a breakthrough: not recovering, at stage 9, with the
\* foundation its realm requires
Eligible(p) ==
    /\ p.recovery_time = 0
    /\ p.stage = 9
    /\ p.foundation_quality >= foundation_requirement[p.realm]

\* C6: across any sequence of operations the realm never moves to an earlier
\* realm; it changes only inside a successful breakthrough attempt, by exactly
\* one position; a failed or refused attempt and every other operation leave it.
C6_RealmChangesOnlyBySuccess ==
    [][/\ RealmIndex(realm') >= RealmIndex(realm)
       /\ realm' # realm =>
              /\ last'.op = "attempt_realm_breakthrough"
              /\ last'.outcome = "success"
              /\ RealmIndex(realm') = RealmIndex(realm) + 1
       /\ (last'.op # "attempt_realm_breakthrough" \/ last'.outcome # "success") =>
              realm' = realm]_vars

\* a successful attempt that moved the player one realm up
C6_RealmAdvanced ==
    /\ AttemptObserved
    /\ last.outcome = "success"
    /\ RealmIndex(realm) = RealmIndex(last.pre.realm) + 1

\* C7: in every reachable state foundation_quality is at least 10.
C7_FoundationAtLeastTen == foundation_quality >= 10

C9_FailedDrawPenalties ==
    (AttemptObserved /\ Eligible(last.pre) /\ ~last.draw.roll) =>
        /\ realm = last.pre.realm
        /\ stage = last.pre.stage
        /\ \E d \in 2..8 :
               foundation_quality = Max(10, last.pre.foundation_quality - d)
        /\ \E p \in 10..30 :
               experience = last.pre.experience - (last.pre.experience * p) \div 100
        /\ recovery_time \in 3..7
        /\ ongoing_effects =
               Append(last.pre.ongoing_effects,
                      Effect("Qi Deviation", "negative", 70, recovery_time))

\* C10: when an eligible attempt's draw succeeds below the final realm, the player
\* is in the next realm at stage 1 with experience 0, foundation has grown by an
\* amount in 5..15 and recovery_time is still 0.
C10_SuccessfulDrawAdvances ==
    (/\ AttemptObserved
     /\ Eligible(last.pre)
     /\ last.draw.roll
     /\ last.pre.realm # CultivationRealm[Len(CultivationRealm)]) =>
        /\ realm = CultivationRealm[RealmIndex(last.pre.realm) + 2]
        /\ stage = 1
        /\ experience = 0
        /\ foundation_quality - last.pre.foundation_quality \in 5..15
        /\ recovery_time = 0

\* a successful draw that reset a stage-9 player with experience to stage 1
C10_StageAndExperienceReset ==
    /\ AttemptObserved
    /\ Eligible(last.pre)
    /\ last.draw.roll
    /\ last.pre.experience > 0
    /\ realm = CultivationRealm[RealmIndex(last.pre.realm) + 2]
    /\ stage = 1
    /\ experience = 0

----------------------------------------------------------------------------
(* The contracts of the pure functions, under PureSpec *)

\* the observed call computed a breakthrough success rate
RateObserved == last.op = "calculate_breakthrough_success_rate"

\* C11: for every realm, foundation value and set of bonus factors (sums of 10.0
\* and large negative sums included) the computed success rate lies in
\* [0.05, 0.95].
C11_RateWithinBounds ==
    RateObserved =>
        /\ last.rate >= Thousandths(last.realm, 50)
        /\ last.rate <= Thousandths(last.realm, 950)

\* bonus factors summing to 10.0 capped at 0.95
C11_LargeBonusCapped ==
    /\ RateObserved
    /\ last.bonus_factors = <<5000, 5000>>
    /\ last.rate = Thousandths(last.realm, 950)

\* the single clamp of the complete sum:
\* clamp(0.05, 0.95, 0.3 + (foundation / requirement - 1.0) * 0.4
\*                       - (difficulty - 1.0) * 0.1 + sum of bonus factors)
SingleClamp(r, fq, bonus_factors) ==
    Min(Thousandths(r, 950),
        Max(Thousandths(r, 50),
            AddBonusFactors(r, bonus_factors, 1,
                Thousandths(r, 300) + 400 * (fq - foundation_requirement[r])
                - Thousandths(r, (breakthrough_difficulty[r] - 10) * 10))))

\* C12: the computed success rate equals the single clamp of the complete sum;
\* no intermediate value is clamped before the difficulty penalty or the bonus
\* factors are added.
C12_RateIsSingleClamp ==
    RateObserved =>
        last.rate = SingleClamp(last.realm, last.foundation_quality, last.bonus_factors)

\* the observed call granted experience to a player at stage 8 with none
GrantAtStageEight ==
    /\ last.op = "add_experience"
    /\ last.pre.stage = 8
    /\ last.pre.experience = 0

\* C13 as amended: for any realm T, granting exactly requirement(T, 8) to a player
\* at stage 8 with zero accumulated experience advances the player to stage 9
\* exactly once and leaves zero accumulated experience; granting requirement(T, 9)
\* advances to stage 9 as well and leaves requirement(T, 9) - requirement(T, 8).
C13_StageRequirementAdvancesOnce ==
    GrantAtStageEight =>
        /\ last.amount = get_stage_exp_requirement(last.pre.realm, 8) =>
               /\ last.result.stage = 9
               /\ last.result.experience = 0
        /\ last.amount = get_stage_exp_requirement(last.pre.realm, 9) =>
               /\ last.result.stage = 9
               /\ last.result.experience =
                      get_stage_exp_requirement(last.pre.realm, 9)
                      - get_stage_exp_requirement(last.pre.realm, 8)

\* a grant of requirement(T, 8) at stage 8 that reached stage 9 with nothing left
C13_ReachedStageNine ==
    /\ GrantAtStageEight
    /\ last.amount = get_stage_exp_requirement(last.pre.realm, 8)
    /\ last.result.stage = 9
    /\ last.result.experience = 0
    /\ last.result.foundation_quality = last.pre.foundation_quality + 18

\* C13 as stated: granting exactly requirement(T, 9) to a player at stage 8 with
\* zero accumulated experience advances to stage 9 and leaves zero accumulated
\* experience.
C13_NextRequirementLeavesZero ==
    (GrantAtStageEight
     /\ last.amount = get_stage_exp_requirement(last.pre.realm, 9)) =>
        /\ last.result.stage = 9
        /\ last.result.experience = 0

RECURSIVE TimesDigits(_, _, _, _)
\* the base-100 digits frac[1..i] of a fraction times m, with the carry out of
\* the leading digit
TimesDigits(frac, i, m, carry) ==
    IF i = 0 THEN [digits |-> <<>>, carry |-> carry]
    ELSE LET v == frac[i] * m + carry
             rest == TimesDigits(frac, i - 1, m, v \div 100)
         IN  [digits |-> Append(rest.digits, v % 100), carry |-> rest.carry]

\* x * m / 100 exactly, for x = [int, frac] with frac the base-100 digits of its
\* fractional part
TimesHundredths(x, m) ==
    LET f == TimesDigits(x.frac, Len(x.frac), m, 0)
        whole == x.int * m + f.carry
    IN  [int |-> whole \div 100, frac |-> <<whole % 100>> \o f.digits]

RECURSIVE ExactProduct(_, _)
\* base_exp(T) * growth_multiplier(T)^k exactly
ExactProduct(r, k) ==
    IF k = 0 THEN [int |-> stage_exp_base[r], frac |-> <<>>]
    ELSE TimesHundredths(ExactProduct(r, k - 1), stage_exp_multiplier[r])

\* floor(base_exp(T) * growth_multiplier(T)^(s - 1))
FloorRequirement(r, s) == ExactProduct(r, s - 1).int

\* C14: for all realms T and stages s in 1..9 the requirement is strictly
\* increasing, requirement(T, s + 1) > requirement(T, s), where requirement(T, s)
\* is floor(base_exp(T) * growth_multiplier(T)^(s - 1)) inside 1..9 and 0 outside.
C14_RequirementIncreasesAndIsFloor ==
    last.op = "get_stage_exp_requirement" =>
        IF last.stage \in 1..9
        THEN /\ last.next_requirement > last.requirement
             /\ last.requirement = FloorRequirement(last.realm, last.stage)
        ELSE last.requirement = 0

\* the observed call ran the duration tick on a list whose finite durations are
\* all positive
TickObserved ==
    /\ last.op = "cleanup_expired_effects"
    /\ \A i \in DOMAIN last.effects :
           LET d == EffRemaining(last.effects[i], last.template_duration)
           IN  d = None \/ d >= 1

\* what the tick is to leave of a list as its dicts show it: every finite
\* duration one lower, the entries that reach zero gone, the permanent ones as
\* they were
Ticked(view) ==
    SelectSeq([i \in DOMAIN view |->
                  IF view[i].remaining_duration = None THEN view[i]
                  ELSE [view[i] EXCEPT !.remaining_duration = @ - 1]],
              LAMBDA v : v.remaining_duration # 0)

\* C15: a duration tick lowers the remaining duration of every finite-duration
\* effect by exactly one and removes in that same tick every effect whose duration
\* thereby reaches zero, so that no effect is left with remaining duration 0;
\* permanent effects are unchanged and stay in the list.
C15_TickDecrementsAndRemoves ==
    TickObserved =>
        EffectView(last.result.effects, last.result.template_duration)
            = Ticked(EffectView(last.effects, last.template_duration))

\* C16: for every base experience of at least 1 and every effect list the
\* experience _apply_ongoing_effects returns is at least 1.
C16_ModifiedExperienceAtLeastOne ==
    (last.op = "apply_ongoing_effects" /\ last.base_exp >= 1) => last.result >= 1

\* C17: for any effect list and any fixed per-effect recovery outcomes, the tick
\* followed by natural recovery leaves the same list (same effects, same
\* remaining durations) as natural recovery followed by the tick.
C17_TickAndRecoveryCommute ==
    last.op = "recovery_and_cleanup" =>
        EffectView(last.cleanup_first.effects, last.cleanup_first.template_duration)
            = EffectView(last.recovery_first.effects,
                         last.recovery_first.template_duration)

AdvanceObserved == last.op = "add_experience" /\ last.amount >= 0

\* the number of messages of one kind
CountOf(messages, kind) ==
    Cardinality({i \in DOMAIN messages : messages[i] = kind})

\* C24: after add_experience with a non-negative amount from stage s the final
\* stage s' satisfies s <= s' <= 9 and either s' = 9 or the remaining experience
\* is below requirement(s'); old experience + amount = new experience + the
\* requirements of the stages s..s'-1; one advancement notice per increment
C24_AdvancementLoop ==
    AdvanceObserved =>
        LET pre == last.pre
            post == last.result
        IN  /\ pre.stage <= post.stage
            /\ post.stage <= 9
            /\ \/ post.stage = 9
               \/ post.experience < get_stage_exp_requirement(post.realm, post.stage)
            /\ pre.experience + last.amount
                   = post.experience
                     + RequirementsThrough(pre.realm, pre.stage, post.stage - 1)
            /\ CountOf(last.messages, "advanced") = post.stage - pre.stage

\* one grant advanced a player from stage 1 to stage 9
C24_AdvancedEightStages ==
    /\ AdvanceObserved
    /\ last.pre.stage = 1
    /\ last.result.stage = 9
    /\ CountOf(last.messages, "advanced") = 8
    /\ last.result.experience > 0

SessionObserved == last.op = "cultivate_session"

\* the effect an observed session's encounter appends (none without one)
SessionAppended ==
    IF last.draw.enc = 0 THEN NoEffect
    ELSE generate_encounter_reward(last.draw.enc, last.pre.realm,
                                   last.draw.bonus_exp, last.draw.bonus_fnd).ongoing_effect

RECURSIVE KeptDecremented(_, _, _)
\* the entries of a view at the positions K from i on, each finite duration
\* one lower
KeptDecremented(view, K, i) ==
    IF i > Len(view) THEN <<>>
    ELSE (IF i \notin K THEN <<>>
          ELSE IF view[i].remaining_duration = None THEN <<view[i]>>
          ELSE <<[view[i] EXCEPT !.remaining_duration = @ - 1]>>)
         \o KeptDecremented(view, K, i + 1)

\* C25: a session applies the modifiers of the effects it starts with to the
\* base experience, then adds the encounter's rewards and appends its effect,
\* then applies the experience, then runs recovery and one duration tick, so
\* every effect left at the end, one appended in the session included, shows
\* its finite duration exactly one lower than before
C25_SessionTicksOnce ==
    SessionObserved =>
        LET pre == last.pre
            post == last.result
            before == EffectView(pre.ongoing_effects \o SessionAppended,
                                 pre.template_duration)
            after == EffectView(post.ongoing_effects, post.template_duration)
            reward == IF last.draw.enc = 0 THEN 0
                      ELSE generate_encounter_reward(last.draw.enc, pre.realm,
                               last.draw.bonus_exp, last.draw.bonus_fnd).experience
        IN  /\ pre.experience
                   + apply_ongoing_effects(pre.ongoing_effects, last.draw.base_exp)
                   + reward
                 = post.experience
                   + RequirementsThrough(pre.realm, pre.stage, post.stage - 1)
            /\ \E K \in SUBSET DOMAIN before : after = KeptDecremented(before, K, 1)

RewardObserved == last.op = "generate_encounter_reward"

\* the amount of an integer reward (0 when the key is absent)
Amount(x) == IF x = Absent THEN 0 ELSE x[1]
\* the keys and the entries of a dict reward
Keys(x) == IF x = Absent THEN {} ELSE DOMAIN x[1]
Entry(x, k) == IF k \in Keys(x) THEN x[1][k] ELSE 0

\* a dict reward is the definition's entries scaled by min(m, cap) tenths and
\* truncated, plus the bonus entries
ScaledDictPlusBonus(result, definition, bonus, m, cap) ==
    /\ Keys(result) = Keys(definition) \cup Keys(bonus)
    /\ (result = Absent) <=> (definition = Absent /\ bonus = Absent)
    /\ \A k \in Keys(result) :
          Entry(result, k) = Trunc(Entry(definition, k) * Min(m, cap), 10)
                                 + Entry(bonus, k)

\* C22: generated rewards are the definition's experience and foundation scaled
\* by the realm multiplier, its philosophy entries by min(multiplier, 1.5) and
\* its elemental entries by min(multiplier, 2.0), each truncated, with the
\* bonuses added on top; at multiplier 2.0 experience 50 and wisdom 5 yield
\* experience 100 and wisdom 7 when no bonus fires
C22_RewardsScaledBonusesAdded ==
    RewardObserved =>
        LET d == last.definition
            b == last.bonus
            m == reward_multiplier(last.realm)
        IN  /\ \A k \in {"experience", "foundation"} :
                  /\ (last.rewards[k] = Absent) <=> (d[k] = Absent /\ b[k] = Absent)
                  /\ Amount(last.rewards[k]) = Trunc(Amount(d[k]) * m, 10) + Amount(b[k])
            /\ ScaledDictPlusBonus(last.rewards.philosophy, d.philosophy,
                                   b.philosophy, m, 15)
            /\ ScaledDictPlusBonus(last.rewards.elemental, d.elemental,
                                   b.elemental, m, 20)
            /\ (/\ m = 20
                /\ d.experience = <<50>>
                /\ Entry(d.philosophy, "wisdom") = 5
                /\ b = Rewards(Absent, Absent, Absent, Absent))
               => /\ last.rewards.experience = <<100>>
                  /\ Entry(last.rewards.philosophy, "wisdom") = 7

\* at multiplier 2.0 a definition granting experience 50 and wisdom 5 met an
\* experience bonus and a wisdom bonus, which were added to 100 and to 7
C22_BonusOnTopOfScaled ==
    /\ RewardObserved
    /\ reward_multiplier(last.realm) = 20
    /\ last.definition.experience = <<50>>
    /\ Entry(last.definition.philosophy, "wisdom") = 5
    /\ Amount(last.bonus.experience) > 0
    /\ Entry(last.bonus.philosophy, "wisdom") > 0
    /\ Amount(last.rewards.experience) = 100 + Amount(last.bonus.experience)
    /\ Entry(last.rewards.philosophy, "wisdom") = 7 + Entry(last.bonus.philosophy, "wisdom")

----------------------------------------------------------------------------
(* The contracts of curing and meditation, under RecoverySpec *)

CureObserved == last.op = "cure_effect"

\* positions of the negative effects called name
NamedNegatives(effs, name) ==
    {i \in DOMAIN effs : EffName(effs[i]) = name /\ EffType(effs[i]) = "negative"}

\* the ledger covers the cost denomination by denomination, or by total value
Affordable(inv, cost) ==
    \/ \A g \in SpiritStoneGrade : inv[g] >= cost[g]
    \/ get_total_value_in_low_grade(inv) >= total_cost(cost)

\* C18: curing an active negative effect by name has three outcomes: a name
\* without a cure catalog entry is refused as not curable, a cost the ledger
\* cannot afford is refused as cannot afford, and both refusals leave the
\* player (effect list, ledger, cured-count) as it was; otherwise the cost is
\* paid, exactly one effect of that name is removed and the cured-count grows
\* by one
C18_CureThreeOutcomes ==
    (CureObserved /\ NamedNegatives(last.pre.ongoing_effects, last.effect_name) # {}) =>
        LET pre == last.pre
            cost == cure_costs(last.effect_name)
        IN  IF cost = NoCost
            THEN last.outcome = "no cure" /\ Player = pre
            ELSE IF ~Affordable(pre.inventory, cost)
            THEN last.outcome = "cannot afford" /\ Player = pre
            ELSE /\ last.outcome = "cured"
                 /\ get_total_value_in_low_grade(inventory)
                        <= get_total_value_in_low_grade(pre.inventory) - total_cost(cost)
                 /\ \A g \in SpiritStoneGrade :
                        inventory[g] >= 0 /\ inventory[g] <= pre.inventory[g]
                 /\ \E i \in NamedNegatives(pre.ongoing_effects, last.effect_name) :
                        ongoing_effects = Pop(pre.ongoing_effects, i)
                 /\ effects_cured = pre.effects_cured + 1

\* a cure was paid for an effect carried twice, and the other one stays
C18_CuredOneOfTwo ==
    /\ CureObserved
    /\ last.outcome = "cured"
    /\ Cardinality(NamedNegatives(last.pre.ongoing_effects, last.effect_name)) = 2
    /\ Cardinality(NamedNegatives(ongoing_effects, last.effect_name)) = 1
    /\ inventory # last.pre.inventory

MeditationObserved == last.op = "meditate_for_recovery"

\* the positive effects of a list, in order
PositiveEffects(effs) == SelectSeq(effs, LAMBDA e : EffType(e) = "positive")

\* C19: meditation for recovery never touches the ledger or a positive effect;
\* with no negative effect active it fails and removes nothing, a successful
\* roll removes exactly min(2, n) of the n active negative effects, a failed
\* roll removes none
C19_MeditationRemovesUpToTwo ==
    MeditationObserved =>
        LET pre == last.pre
            n == Cardinality(NegativeIndices(pre.ongoing_effects))
        IN  /\ inventory = pre.inventory
            /\ PositiveEffects(ongoing_effects) = PositiveEffects(pre.ongoing_effects)
            /\ (n = 0) => (~last.ok /\ ongoing_effects = pre.ongoing_effects)
            /\ last.ok =>
                   /\ Cardinality(NegativeIndices(ongoing_effects)) = n - Min(2, n)
                   /\ Len(ongoing_effects) = Len(pre.ongoing_effects) - Min(2, n)
            /\ ~last.ok => ongoing_effects = pre.ongoing_effects

\* a successful meditation with three negative effects active left one of them
C19_CleansedTwoOfThree ==
    /\ MeditationObserved
    /\ last.ok
    /\ Cardinality(NegativeIndices(last.pre.ongoing_effects)) = 3
    /\ Cardinality(NegativeIndices(ongoing_effects)) = 1

----------------------------------------------------------------------------
(* The contracts of encounter selection, under EncounterSpec *)

EncounterObserved == last.op = "process_encounter" /\ last.encounter_type # "none"

\* the two most recent categories of a history of at least two
LastTwo(recent) == {recent[Len(recent) - 1], recent[Len(recent)]}

\* the three most recent categories of the history are three different ones
LastThreeDiffer ==
    LET n == Len(recent_encounter_types)
    IN  Cardinality({recent_encounter_types[i] : i \in (n - 2)..n}) = 3

\* the new category differs from the two most recent ones, which never cover
\* every category, and the history holds at most 5 entries
VarietyRule ==
    /\ (EncounterObserved /\ Len(last.recent) >= 2) =>
           /\ last.encounter_type \notin LastTwo(last.recent)
           /\ EncounterType \ LastTwo(last.recent) # {}
    /\ Len(recent_encounter_types) <= 5

\* C20: once the history holds two categories every newly selected category
\* differs from both of the two most recent ones (the exclusion never empties
\* the pool), so from the fourth encounter on the three most recent encounters
\* are of three different categories; the history never holds more than 5
C20_VarietyFromFourthEncounter ==
    /\ VarietyRule
    /\ Len(recent_encounter_types) >= 4 => LastThreeDiffer

\* C20 as stated: the same, with no repeat within three consecutive encounters
\* from the third encounter on
C20_VarietyFromThirdEncounter ==
    /\ VarietyRule
    /\ Len(recent_encounter_types) >= 3 => LastThreeDiffer

\* an encounter was selected against a full history, whose oldest entry left
C20_SelectedAgainstFullHistory ==
    /\ EncounterObserved
    /\ Len(last.recent) = 5
    /\ Len(recent_encounter_types) = 5
    /\ recent_encounter_types = Append(Tail(last.recent), last.encounter_type)

\* C21: the probability used for a session's roll is min(0.06 + drought_bonus,
\* 0.4), in hundredths, where drought_bonus is 0 while the counter n read for
\* the roll is below 15 and min(0.3, (n - 15) * 0.02) from 15 on, 0.16 at n = 20;
\* the counter is 0 after a session with an encounter and one more otherwise
C21_ChanceAndDroughtCounter ==
    last.op = "process_encounter" =>
        LET n == last.since + 1
            drought_bonus == IF n < 15 THEN 0 ELSE Min(30, (n - 15) * 2)
        IN  /\ last.chance = Min(6 + drought_bonus, 40)
            /\ n = 20 => last.chance = 16
            /\ sessions_since_encounter =
                   IF last.encounter_type = "none" THEN last.since + 1 ELSE 0

\* the roll of the 20th session of a drought was made, and no encounter fired
C21_TwentiethQuietSession ==
    /\ last.op = "process_encounter"
    /\ last.since + 1 = 20
    /\ last.chance = 16
    /\ last.encounter_type = "none"
    /\ sessions_since_encounter = 20

\* C23: saving a player and loading it back through the game's load path
\* restores the sessions-since-last-encounter counter and the category history
\* to their saved values, so the next session's probability and variety
\* exclusion are those of the saved manager
C23_LoadRestoresEncounterState ==
    last.op = "load_existing_game" =>
        /\ sessions_since_encounter = last.saved.sessions_since_encounter
        /\ recent_encounter_types = last.saved.recent_encounter_types
        /\ calculate_encounter_chance(sessions_since_encounter + 1)
               = calculate_encounter_chance(last.saved.sessions_since_encounter + 1)
        /\ select_encounter_type(recent_encounter_types)
               = select_encounter_type(last.saved.recent_encounter_types)

----------------------------------------------------------------------------
(* The contract of recovery from a failed breakthrough, under RecoveringFairSpec *)

\* the step is a call of the named operation
Calls(op) == Idle /\ last'.op = op

\* one step of a recovering player: a session lowers a positive recovery_time by
\* one, only a session or a failed attempt changes it, an attempt made while
\* it is positive is refused and leaves the player alone, and an attempt made
\* at 0 by a player at stage 9 with the required foundation is carried out
RecoveryStep ==
    /\ recovery_time' >= 0
    /\ Calls("cultivate_with_choice") =>
           recovery_time' = IF recovery_time > 0 THEN recovery_time - 1 ELSE 0
    /\ recovery_time' # recovery_time =>
           \/ Calls("cultivate_with_choice")
           \/ Calls("attempt_realm_breakthrough") /\ last'.outcome = "failure"
    /\ Calls("attempt_realm_breakthrough") =>
           /\ recovery_time > 0 => (last'.outcome = "recovering" /\ Player' = Player)
           /\ (/\ recovery_time = 0
               /\ stage = 9
               /\ foundation_quality >= foundation_requirement[realm])
              => last'.outcome \in {"success", "failure"}

\* C26: after a failed breakthrough recovery_time falls by exactly one in each
\* cultivation session, never goes below 0 and is changed by no other
\* operation; every attempt made while it is positive is refused; if sessions
\* keep occurring it eventually reaches 0, after which an attempt is permitted
\* whenever stage is 9 and foundation meets the realm's requirement
C26_RecoveryCountsDown ==
    /\ [][RecoveryStep]_vars
    /\ (recovery_time > 0) ~> (recovery_time = 0)

\* a Qi Gathering player who failed once attempted again after the recovery
\* ran out, and broke through
C26_AttemptAfterRecovery ==
    /\ last.op = "attempt_realm_breakthrough"
    /\ last.pre.realm = "Qi Gathering"
    /\ last.pre.breakthrough_failures = 1
    /\ last.pre.recovery_time = 0
    /\ last.outcome = "success"



----------------------------------------------------------------------------
(* The encounter catalogs as static definitions, under LongSpec *)

\* C27: no sequence of encounters and cultivation sessions changes a static
\* encounter definition: the effect appended to the player is independent of
\* the definition's template, so every negative_effect template of the choice
\* catalog keeps its original remaining_duration (the random-encounter catalog
\* is copied on use and is constant)
C27_CatalogTemplatesUnchanged ==
    template_duration = [k \in Templates |-> ChoiceEffects[k].remaining_duration]

----------------------------------------------------------------------------
(* The accumulated experience and the final realm, under Spec *)

\* C29: in every reachable state the player's accumulated experience is at
\* least zero: no cultivation session, encounter reward (a negative experience
\* reward included), active effect or breakthrough attempt makes it negative
C29_ExperienceNeverNegative == experience >= 0

\* C30: at the final realm (stage 9, foundation requirement met, not
\* recovering) a breakthrough attempt is terminal: whatever the draw, realm and
\* stage stay as they are, and when the draw is a success no failure penalty is
\* applied: breakthrough_failures is not incremented and no negative ongoing
\* effect is appended
C30_FinalRealmAttemptTerminal ==
    (/\ last.op = "attempt_realm_breakthrough"
     /\ get_next_realm(last.pre.realm) = ""
     /\ last.pre.stage = 9
     /\ last.pre.foundation_quality >= foundation_requirement[last.pre.realm]
     /\ last.pre.recovery_time = 0)
    => /\ realm = last.pre.realm
       /\ stage = 9
       /\ last.draw.roll =>
              /\ breakthrough_failures = last.pre.breakthrough_failures
              /\ ~\E i \in (Len(last.pre.ongoing_effects) + 1)..Len(ongoing_effects) :
                      EffType(ongoing_effects[i]) = "negative"

====
